---- MODULE Spec2Model ----
(***************************************************************************)
(* A model of the amsc-grad tensor / reverse-mode autodiff engine:         *)
(*   include/core/tensor_core.hpp   Tensor (constructor, backward,         *)
(*                                  zero_grad)                             *)
(*   include/ops/arithmetic.hpp     operator+, operator*, pow, sum, mean,  *)
(*                                  broadcast_add                          *)
(*   include/ops/activations.hpp    relu, tanh                             *)
(*   include/ops/matmul.hpp         raw_matmul, transpose, matmul          *)
(*                                                                         *)
(* Nodes live in an arena addressed by integer ids (the model's stand-in   *)
(* for the addresses std::shared_ptr<Tensor<T>> points at).  A node is     *)
(* alive while some std::shared_ptr refers to it: a handle of the caller,  *)
(* a `prev` entry of an alive node, a capture of an alive node's grad_fn   *)
(* closure, or the `graph` vector of a running backward().                 *)
(*                                                                         *)
(* The numeric type T (float / double) is modelled by exact rationals      *)
(* <<numerator, denominator>> in lowest terms; rounding is not modelled.   *)
(***************************************************************************)
EXTENDS Integers, Sequences, FiniteSets, TLC

(***************************************************************************)
(* Bounds of the model.                                                    *)
(***************************************************************************)
\* Spec: nodes allocated / backward() calls in one run
MaxNodes == 4
MaxBackward == 1
\* SpecTwice: nodes allocated / backward() calls in one run
MaxNodesTwice == 3
MaxBackwardTwice == 2
\* SpecLife: nodes allocated / backward() calls / handles dropped in one run
MaxNodesLife == 3
MaxBackwardLife == 1
MaxRelease == 3
\* SpecCtor: nodes allocated / backward() calls in one run
MaxNodesCtor == 2
MaxBackwardCtor == 1
\* SpecOps: nodes allocated / backward() calls in one run
MaxNodesOps == 3
MaxBackwardOps == 1
\* SpecMat: nodes allocated / backward() calls in one run
MaxNodesMat == 3
MaxBackwardMat == 2
\* SpecPerm: nodes allocated in one run
MaxNodesPerm == 2
\* SpecBcast: nodes allocated / backward() calls in one run
MaxNodesBcast == 3
MaxBackwardBcast == 1
\* SpecRand: nodes allocated in one run / largest n given to random_perm
MaxNodesRand == 1
MaxNodesShape == 3
MaxBackwardShape == 1
MaxNodesSgd == 3
MaxBackwardSgd == 1
MaxStepSgd == 2
MaxNodesAdam == 2
MaxBackwardAdam == 1
MaxStepAdam == 2
SqrtDen == 16
MaxNodesAct == 3
MaxBackwardAct == 1
MaxNodesPow == 4
MaxBackwardPow == 1
MaxNodesBcastGrad == 4
MaxBackwardBcastGrad == 1
MaxNodesShare == 4
MaxBackwardShare == 2
MaxNodesPermGrad == 2
MaxBackwardPermGrad == 1
MaxPermLen == 4

(***************************************************************************)
(* Numbers.                                                                *)
(***************************************************************************)
Abs(x) == IF x < 0 THEN -x ELSE x

RECURSIVE GCD(_, _)
GCD(a, b) == IF b = 0 THEN a ELSE GCD(b, a % b)

Sign(n) == IF n > 0 THEN 1 ELSE IF n < 0 THEN -1 ELSE 0

\* the values of T that are not numbers: the infinities and NaN
Inf == <<1, 0>>
NegInf == <<-1, 0>>
NaN == <<0, 0>>
IsFinite(x) == x[2] # 0

\* the rational n/d (d > 0) in lowest terms; with d = 0, the infinity of the
\* sign of n, or NaN for 0/0
Norm(n, d) == IF d = 0 THEN <<Sign(n), 0>>
              ELSE LET g == GCD(Abs(n), d) IN <<n \div g, d \div g>>

Q(i) == <<i, 1>>
QAdd(x, y) == IF x[2] = 0 /\ y[2] = 0
              THEN (IF x = y THEN x ELSE NaN)
              ELSE Norm(x[1] * y[2] + y[1] * x[2], x[2] * y[2])
QMul(x, y) == Norm(x[1] * y[1], x[2] * y[2])
QPos(x) == x[1] > 0
QNeg(x) == <<-x[1], x[2]>>
QSub(x, y) == QAdd(x, QNeg(y))
\* x / y; x / 0 is an infinity, or NaN for 0 / 0
QDiv(x, y) == IF y[1] >= 0 THEN Norm(x[1] * y[2], x[2] * y[1])
                          ELSE Norm(-(x[1] * y[2]), -(x[2] * y[1]))

\* the largest r with r * r <= n, searched upwards from r
RECURSIVE ISqrt(_, _)
ISqrt(n, r) == IF (r + 1) * (r + 1) > n THEN r ELSE ISqrt(n, r + 1)

\* std::sqrt(x) for x >= 0: the square root rounded down to a multiple of
\* 1/SqrtDen, as the floating-point result is the root rounded to the format
QSqrt(x) == Norm(ISqrt((x[1] * SqrtDen * SqrtDen) \div x[2], 0), SqrtDen)

\* std::pow(x, e) for an int exponent e; pow(0, e) is an infinity for e < 0
RECURSIVE QPow(_, _)
QPow(x, e) == IF e = 0 THEN Q(1)
              ELSE IF e < 0 THEN QDiv(Q(1), QPow(x, -e))
              ELSE QMul(x, QPow(x, e - 1))

(***************************************************************************)
(* Vectors (std::vector<T>, 0-based in the code, 1-based here).            *)
(***************************************************************************)
Range(s) == {s[i] : i \in 1..Len(s)}
Fill(n, v) == [i \in 1..n |-> v]
Count(s, x) == Cardinality({i \in 1..Len(s) : s[i] = x})

RECURSIVE SumSeq(_, _)
SumSeq(s, i) == IF i > Len(s) THEN Q(0) ELSE QAdd(s[i], SumSeq(s, i + 1))

\* vec[i] += F(i) for the n first elements (for (i = 0; i < n; ++i))
Accum(vec, n, F(_)) ==
    [i \in 1..Len(vec) |-> IF i <= n THEN QAdd(vec[i], F(i)) ELSE vec[i]]

(***************************************************************************)
(* State.                                                                  *)
(***************************************************************************)
VARIABLES
    tensors,      \* id -> Tensor, for the nodes that are alive
    next_id,      \* number of nodes allocated so far
    owned,        \* the caller's handles (std::shared_ptr variables)
    pc,           \* "idle", or the position inside a running backward()
    target,       \* backward(): this
    clean_graph,  \* backward(): its argument
    graph,        \* backward(): the local vector `graph`
    it,           \* backward(): the reverse iterator (index into graph)
    executed,     \* history: the grad_fn calls of the current / last backward()
    built,        \* history: how each node was made (operation, operands)
    hist,         \* history: the last call that returned
    repeat,       \* history: the backward() repeats a cleaning backward() on the same node
    nbackward,    \* backward() invocations so far
    nrelease,     \* handles dropped so far
    dirty,        \* history: the nodes a backward() wrote to since they were made
                  \* or last reset by zero_grad()
    last_perm,    \* the vector the last random_perm() returned
    sgd,          \* the caller's SGD optimizer: params, lr
    adam,         \* the caller's Adam optimizer: params (tensor, decay, m, v),
                  \* lr, beta1, beta2, eps, weight_decay, step_count
    noptim        \* step() invocations so far

\* the optimizers
optim == <<sgd, adam, noptim>>

\* the caller's variables that no call on a tensor touches
aux == <<last_perm, optim>>

vars == <<tensors, next_id, owned, pc, target, clean_graph, graph, it,
          executed, built, hist, repeat, nbackward, nrelease, dirty, aux>>

Alive == DOMAIN tensors

\* std::function<void()> grad_fn = []() {}
NoGradFn == [op |-> "None", a |-> 0, b |-> 0, out |-> 0, k |-> 0]

\* the shared_ptr copies a closure holds
Captures(fn) == {fn.a, fn.b, fn.out} \ {0}

(***************************************************************************)
(* Tensor::Tensor.  Members are initialised in declaration order: data,    *)
(* grad, hess, shape, requires_grad, prev.  grad and hess are sized from   *)
(* the data argument as passed.  The body then computes total_size from    *)
(* the constructor PARAMETER `shape`, which shape(std::move(shape)) has    *)
(* already emptied, and assigns that many zeros when data is empty.        *)
(***************************************************************************)
MovedFrom(shape_) == <<>>

RECURSIVE TotalSize(_, _)
TotalSize(shape_, i) ==
    IF i > Len(shape_) THEN 1
    ELSE (IF shape_[i] > 0 THEN shape_[i] ELSE 1) * TotalSize(shape_, i + 1)

Tensor(shape_, data_, requires_grad_, parents, grad_function_name) ==
    LET total_size == TotalSize(MovedFrom(shape_), 1)
    IN  [ data          |-> IF data_ = <<>> THEN Fill(total_size, Q(0)) ELSE data_,
          grad          |-> IF requires_grad_ THEN Fill(Len(data_), Q(0)) ELSE <<>>,
          hess          |-> IF requires_grad_ THEN Fill(Len(data_), Q(0)) ELSE <<>>,
          shape         |-> shape_,
          requires_grad |-> requires_grad_,
          prev          |-> parents,
          grad_fn       |-> NoGradFn,
          metadata      |-> grad_function_name ]

(***************************************************************************)
(* Ownership.  A node is destroyed when its last shared_ptr goes away, and *)
(* its destruction releases the pointers it holds (prev, grad_fn).         *)
(***************************************************************************)
Held(T, n, S, roots) ==
    \/ n \in roots
    \/ \E m \in S : n \in Range(T[m].prev) \/ n \in Captures(T[m].grad_fn)

RECURSIVE Survivors(_, _, _)
Survivors(T, S, roots) ==
    LET dead == {n \in S : ~Held(T, n, S, roots)}
    IN  IF dead = {} THEN S ELSE Survivors(T, S \ dead, roots)

Collect(T, roots) == [n \in Survivors(T, DOMAIN T, roots) |-> T[n]]

(***************************************************************************)
(* The backward contributions (the closures stored in grad_fn).  Each      *)
(* takes the heap T and the closure's captures and returns the heap after  *)
(* the call.  The operands are updated one after the other, as in the      *)
(* code, so that a == b (x + x) accumulates twice.                          *)
(***************************************************************************)
\* operator+ : out->grad_fn
AddBackward(T, fn) ==
    LET a == fn.a
        b == fn.b
        out == fn.out
        T1 == IF T[a].requires_grad
              THEN [T EXCEPT ![a].grad = Accum(T[a].grad, Len(T[a].grad), LAMBDA i : T[out].grad[i]),
                             ![a].hess = Accum(T[a].hess, Len(T[a].hess), LAMBDA i : T[out].hess[i])]
              ELSE T
    IN  IF T1[b].requires_grad
        THEN [T1 EXCEPT ![b].grad = Accum(T1[b].grad, Len(T1[b].grad), LAMBDA i : T1[out].grad[i]),
                        ![b].hess = Accum(T1[b].hess, Len(T1[b].hess), LAMBDA i : T1[out].hess[i])]
        ELSE T1

\* operator*(TensorS, T) : out->grad_fn assigning (=) where the code accumulates (+=)
MulScalarBackward_assign(T, fn) ==
    LET a == fn.a
        out == fn.out
        scalar == fn.k
    IN  IF T[a].requires_grad
        THEN [T EXCEPT ![a].grad = [i \in 1..Len(T[a].grad) |-> QMul(T[out].grad[i], scalar)],
                       ![a].hess = [i \in 1..Len(T[a].hess) |->
                                        QMul(QMul(T[out].hess[i], scalar), scalar)]]
        ELSE T

\* operator*(TensorS, T) : out->grad_fn, fn.k is the captured scalar
MulScalarBackward(T, fn) ==
    LET a == fn.a
        out == fn.out
        scalar == fn.k
    IN  IF T[a].requires_grad
        THEN [T EXCEPT ![a].grad = Accum(T[a].grad, Len(T[a].grad),
                                         LAMBDA i : QMul(T[out].grad[i], scalar)),
                       ![a].hess = Accum(T[a].hess, Len(T[a].hess),
                                         LAMBDA i : QMul(QMul(T[out].hess[i], scalar), scalar))]
        ELSE T

\* operator*(TensorS, TensorS) : out->grad_fn.  Both loops run to a->grad.size().
MulBackward(T, fn) ==
    LET a == fn.a
        b == fn.b
        out == fn.out
        T1 == IF T[a].requires_grad
              THEN [T EXCEPT ![a].grad = Accum(T[a].grad, Len(T[a].grad),
                                 LAMBDA i : QMul(T[out].grad[i], T[b].data[i])),
                             ![a].hess = Accum(T[a].hess, Len(T[a].grad),
                                 LAMBDA i : QMul(QMul(T[out].hess[i], T[b].data[i]), T[b].data[i]))]
              ELSE T
    IN  IF T1[b].requires_grad
        THEN [T1 EXCEPT ![b].grad = Accum(T1[b].grad, Len(T1[a].grad),
                                 LAMBDA i : QMul(T1[out].grad[i], T1[a].data[i])),
                        ![b].hess = Accum(T1[b].hess, Len(T1[a].grad),
                                 LAMBDA i : QMul(QMul(T1[out].hess[i], T1[a].data[i]), T1[a].data[i]))]
        ELSE T1

\* pow : out->grad_fn, fn.k is the captured exponent
PowBackward(T, fn) ==
    LET a == fn.a
        out == fn.out
        exp == fn.k
        fp(i) == QMul(Q(exp), QPow(T[a].data[i], exp - 1))
        fpp(i) == QMul(Q(exp * (exp - 1)), QPow(T[a].data[i], exp - 2))
    IN  IF T[a].requires_grad
        THEN [T EXCEPT ![a].grad = Accum(T[a].grad, Len(T[a].grad),
                                 LAMBDA i : QMul(T[out].grad[i], fp(i))),
                       ![a].hess = Accum(T[a].hess, Len(T[a].grad),
                                 LAMBDA i : QAdd(QMul(QMul(T[out].hess[i], fp(i)), fp(i)),
                                                 QMul(T[out].grad[i], fpp(i))))]
        ELSE T

\* sum : out->grad_fn
SumBackward(T, fn) ==
    LET a == fn.a
        out == fn.out
    IN  IF ~T[a].requires_grad THEN T
        ELSE [T EXCEPT ![a].grad = Accum(T[a].grad, Len(T[a].data), LAMBDA i : T[out].grad[1]),
                       ![a].hess = Accum(T[a].hess, Len(T[a].data), LAMBDA i : T[out].hess[1])]

\* relu : out->grad_fn with the mask 1 at out->data[i] == 0 as well
ReLuBackward_one_at_zero(T, fn) ==
    LET a == fn.a
        out == fn.out
        mask(i) == IF T[out].data[i][1] >= 0 THEN Q(1) ELSE Q(0)
    IN  IF T[a].requires_grad
        THEN [T EXCEPT ![a].grad = Accum(T[a].grad, Len(T[a].data),
                                 LAMBDA i : QMul(mask(i), T[out].grad[i])),
                       ![a].hess = Accum(T[a].hess, Len(T[a].data),
                                 LAMBDA i : QMul(mask(i), T[out].hess[i]))]
        ELSE T

\* relu : out->grad_fn
ReLuBackward(T, fn) ==
    LET a == fn.a
        out == fn.out
        mask(i) == IF QPos(T[out].data[i]) THEN Q(1) ELSE Q(0)
    IN  IF T[a].requires_grad
        THEN [T EXCEPT ![a].grad = Accum(T[a].grad, Len(T[a].data),
                                 LAMBDA i : QMul(mask(i), T[out].grad[i])),
                       ![a].hess = Accum(T[a].hess, Len(T[a].data),
                                 LAMBDA i : QMul(mask(i), T[out].hess[i]))]
        ELSE T

\* tanh : out->grad_fn (the derivatives are computed from out->data)
TanhBackward(T, fn) ==
    LET a == fn.a
        out == fn.out
        dy(i) == QAdd(Q(1), QMul(Q(-1), QMul(T[out].data[i], T[out].data[i])))
        d2y(i) == QMul(QMul(Q(-2), T[out].data[i]), dy(i))
    IN  IF T[a].requires_grad
        THEN [T EXCEPT ![a].grad = Accum(T[a].grad, Len(T[a].data),
                                 LAMBDA i : QMul(T[out].grad[i], dy(i))),
                       ![a].hess = Accum(T[a].hess, Len(T[a].data),
                                 LAMBDA i : QAdd(QMul(QMul(T[out].hess[i], dy(i)), dy(i)),
                                                 QMul(T[out].grad[i], d2y(i))))]
        ELSE T

\* sum over the rows i of v[i * K + j], j 0-based
RECURSIVE ColumnSum(_, _, _, _)
ColumnSum(v, N, K, j) ==
    IF N = 0 THEN Q(0) ELSE QAdd(ColumnSum(v, N - 1, K, j), v[(N - 1) * K + j + 1])

\* broadcast_add : out->grad_fn with b taking row 0 of out alone
BroadcastAddBackward_first_row(T, fn) ==
    LET a == fn.a
        b == fn.b
        out == fn.out
        N == fn.k[1]
        K == fn.k[2]
        T1 == IF T[a].requires_grad
              THEN [T EXCEPT ![a].grad = Accum(T[a].grad, N * K, LAMBDA i : T[out].grad[i]),
                             ![a].hess = Accum(T[a].hess, N * K, LAMBDA i : T[out].hess[i])]
              ELSE T
    IN  IF T1[b].requires_grad
        THEN [T1 EXCEPT ![b].grad = Accum(T1[b].grad, K, LAMBDA j : T1[out].grad[j]),
                        ![b].hess = Accum(T1[b].hess, K, LAMBDA j : T1[out].hess[j])]
        ELSE T1

\* broadcast_add : out->grad_fn, fn.k is the captured <<N, K>>
BroadcastAddBackward(T, fn) ==
    LET a == fn.a
        b == fn.b
        out == fn.out
        N == fn.k[1]
        K == fn.k[2]
        T1 == IF T[a].requires_grad
              THEN [T EXCEPT ![a].grad = Accum(T[a].grad, N * K, LAMBDA i : T[out].grad[i]),
                             ![a].hess = Accum(T[a].hess, N * K, LAMBDA i : T[out].hess[i])]
              ELSE T
    IN  IF T1[b].requires_grad
        THEN [T1 EXCEPT ![b].grad = Accum(T1[b].grad, K,
                                  LAMBDA j : ColumnSum(T1[out].grad, N, K, j - 1)),
                        ![b].hess = Accum(T1[b].hess, K,
                                  LAMBDA j : ColumnSum(T1[out].hess, N, K, j - 1))]
        ELSE T1

\* raw_matmul (the build without BLAS): c = a[m,n] * b[n,p] + beta * c
RECURSIVE Dot(_, _, _, _, _, _, _)
Dot(a, b, i, j, n, p, k) ==
    IF k = n THEN Q(0)
    ELSE QAdd(QMul(a[i * n + k + 1], b[k * p + j + 1]), Dot(a, b, i, j, n, p, k + 1))

\* raw_matmul that drops beta * c
raw_matmul_overwrite(a, b, c, m, n, p, beta) ==
    [x \in 1..Len(c) |->
        IF x <= m * p
        THEN Dot(a, b, (x - 1) \div p, (x - 1) % p, n, p, 0)
        ELSE c[x]]

raw_matmul(a, b, c, m, n, p, beta) ==
    [x \in 1..Len(c) |->
        IF x <= m * p
        THEN QAdd(Dot(a, b, (x - 1) \div p, (x - 1) % p, n, p, 0), QMul(beta, c[x]))
        ELSE c[x]]

\* transpose(mat, rows, cols): result[j * rows + i] = mat[i * cols + j]
transpose(mat, rows, cols) ==
    [x \in 1..(cols * rows) |-> mat[((x - 1) % rows) * cols + ((x - 1) \div rows) + 1]]

Squared(v) == [x \in 1..Len(v) |-> QMul(v[x], v[x])]

\* matmul : out->grad_fn, fn.k is the captured <<m, n, p>>
MatMulBackward(T, fn) ==
    LET A == fn.a
        B == fn.b
        out == fn.out
        m == fn.k[1]
        n == fn.k[2]
        p == fn.k[3]
        T1 == IF T[A].requires_grad
              THEN LET BT == transpose(T[B].data, n, p)
                   IN  [T EXCEPT ![A].grad = raw_matmul(T[out].grad, BT, T[A].grad, m, p, n, Q(1)),
                                 ![A].hess = raw_matmul(T[out].hess, Squared(BT), T[A].hess,
                                                        m, p, n, Q(1))]
              ELSE T
    IN  IF T1[B].requires_grad
        THEN LET AT == transpose(T1[A].data, m, n)
             IN  [T1 EXCEPT ![B].grad = raw_matmul(AT, T1[out].grad, T1[B].grad, n, m, p, Q(1)),
                            ![B].hess = raw_matmul(Squared(AT), T1[out].hess, T1[B].hess,
                                                   n, m, p, Q(1))]
        ELSE T1

\* (*it)->grad_fn()
CallGradFn(T, fn) ==
    CASE fn.op = "None" -> T
      [] fn.op = "AddBackward" -> AddBackward(T, fn)
      [] fn.op = "MulScalarBackward" -> MulScalarBackward(T, fn)
      [] fn.op = "MulBackward" -> MulBackward(T, fn)
      [] fn.op = "PowBackward" -> PowBackward(T, fn)
      [] fn.op = "SumBackward" -> SumBackward(T, fn)
      [] fn.op = "ReLuBackward" -> ReLuBackward(T, fn)
      [] fn.op = "TanhBackward" -> TanhBackward(T, fn)
      [] fn.op = "BroadcastAddBackward" -> BroadcastAddBackward(T, fn)
      [] fn.op = "MatMulBackward" -> MatMulBackward(T, fn)

(***************************************************************************)
(* Tensor::backward: build_graph, the depth-first post-order over prev     *)
(* with the `visited` set of node addresses.  st = [visited, graph].       *)
(***************************************************************************)
\* build_graph without the test on `visited`
RECURSIVE build_graph_revisit(_, _, _)
build_graph_revisit(T, v, st) ==
    LET Parents(i, s) == build_graph_revisit(T, T[v].prev[i], s)
        s0 == [visited |-> st.visited \cup {v}, graph |-> st.graph]
        s1 == IF Len(T[v].prev) >= 1 THEN Parents(1, s0) ELSE s0
        s2 == IF Len(T[v].prev) >= 2 THEN Parents(2, s1) ELSE s1
    IN  [visited |-> s2.visited, graph |-> Append(s2.graph, v)]

\* build_graph with graph.push_back(v) ahead of the loop over the parents
RECURSIVE build_graph_preorder(_, _, _)
build_graph_preorder(T, v, st) ==
    IF v \in st.visited THEN st
    ELSE LET Parents(i, s) == build_graph_preorder(T, T[v].prev[i], s)
             s0 == [visited |-> st.visited \cup {v}, graph |-> Append(st.graph, v)]
             s1 == IF Len(T[v].prev) >= 1 THEN Parents(1, s0) ELSE s0
             s2 == IF Len(T[v].prev) >= 2 THEN Parents(2, s1) ELSE s1
         IN  s2

RECURSIVE build_graph(_, _, _)
build_graph(T, v, st) ==
    IF v \in st.visited THEN st
    ELSE LET Parents(i, s) == build_graph(T, T[v].prev[i], s)
             \* for (auto &p: v->prev) build_graph(p); over at most two parents
             s0 == [visited |-> st.visited \cup {v}, graph |-> st.graph]
             s1 == IF Len(T[v].prev) >= 1 THEN Parents(1, s0) ELSE s0
             s2 == IF Len(T[v].prev) >= 2 THEN Parents(2, s1) ELSE s1
         IN  [visited |-> s2.visited, graph |-> Append(s2.graph, v)]

\* a seed that also zeroes grad and hess of every other node of the traversal
Seed_whole_graph(T, t) ==
    LET g == build_graph(T, t, [visited |-> {}, graph |-> <<>>]).graph
    IN  [n \in DOMAIN T |->
            IF n \in Range(g) /\ T[n].requires_grad
            THEN [T[n] EXCEPT !.grad = Fill(Len(T[n].grad), IF n = t THEN Q(1) ELSE Q(0)),
                              !.hess = Fill(Len(T[n].hess), Q(0))]
            ELSE T[n]]

\* the seed without std::fill(hess, 0)
Seed_grad_only(T, t) ==
    IF T[t].requires_grad
    THEN [T EXCEPT ![t].grad = Fill(Len(T[t].grad), Q(1))]
    ELSE T

\* if (this->requires_grad) { fill(grad, 1); fill(hess, 0); }
Seed(T, t) ==
    IF T[t].requires_grad
    THEN [T EXCEPT ![t].grad = Fill(Len(T[t].grad), Q(1)),
                   ![t].hess = Fill(Len(T[t].hess), Q(0))]
    ELSE T

\* the cleaning loop leaving out the node backward() was called on
CleanGraph_skip_target(T, g, clean) ==
    IF clean
    THEN [n \in DOMAIN T |-> IF n \in Range(g) /\ n # g[Len(g)]
                             THEN [T[n] EXCEPT !.prev = <<>>, !.grad_fn = NoGradFn]
                             ELSE T[n]]
    ELSE T

\* the cleaning loop without node->grad_fn = []() {}
CleanGraph_prev_only(T, g, clean) ==
    IF clean
    THEN [n \in DOMAIN T |-> IF n \in Range(g) THEN [T[n] EXCEPT !.prev = <<>>] ELSE T[n]]
    ELSE T

\* a cleaning loop over every node alive, in place of the nodes of `graph`
CleanGraph_every_node(T, g, clean) ==
    IF clean
    THEN [n \in DOMAIN T |-> [T[n] EXCEPT !.prev = <<>>, !.grad_fn = NoGradFn]]
    ELSE T

\* if (clean_graph) for (auto &node: graph) { node->prev.clear(); node->grad_fn = []() {}; }
CleanGraph(T, g, clean) ==
    IF clean
    THEN [n \in DOMAIN T |-> IF n \in Range(g)
                             THEN [T[n] EXCEPT !.prev = <<>>, !.grad_fn = NoGradFn]
                             ELSE T[n]]
    ELSE T

(***************************************************************************)
(* Inputs of the operations.                                               *)
(***************************************************************************)
Scalars == {Q(5)}
Exponents == {2}

Other == [op |-> "other", target |-> 0, clean |-> FALSE]

(***************************************************************************)
(* Actions.  The library is single-threaded: a call runs to completion,    *)
(* so every operation waits for pc = "idle".                               *)
(***************************************************************************)
\* std::make_shared<Tensor<T>>(...) followed by out->grad_fn = ...; the
\* caller receives the only handle.  fn.out is set to the new node.
Emit(t, fn, how) ==
    LET out == next_id + 1
    IN  /\ pc = "idle"
        /\ tensors' = tensors @@
               (out :> [t EXCEPT !.grad_fn = IF fn.op = "None" THEN fn
                                             ELSE [fn EXCEPT !.out = out]])
        /\ next_id' = out
        /\ owned' = owned \cup {out}
        /\ built' = built @@ (out :> how)
        /\ hist' = Other
        /\ UNCHANGED <<aux, dirty, pc, target, clean_graph, graph, it, executed, repeat,
                       nbackward, nrelease>>

\* make_tensor<T>(shape, data, requires_grad): a leaf
MakeTensor(shape_, data_, requires_grad_) ==
    Emit(Tensor(shape_, data_, requires_grad_, <<>>, ""), NoGradFn,
         [op |-> "leaf", args |-> <<>>, k |-> 0])

\* a call that ends in `throw std::runtime_error(what)`: nothing is made or
\* changed, the caller sees the exception
Throw(what) ==
    /\ pc = "idle"
    /\ hist' = [op |-> what, target |-> 0, clean |-> FALSE]
    /\ UNCHANGED <<aux, dirty, tensors, next_id, owned, pc, target, clean_graph, graph, it,
                   executed, built, repeat, nbackward, nrelease>>

\* a call that reads or writes outside a vector: what the build does next
\* (an exception, a crash, a node made of whatever the memory held) is not
\* determined by the source, and the run is followed no further
Undefined(what) ==
    /\ pc = "idle"
    /\ pc' = "undefined"
    /\ hist' = [op |-> what, target |-> 0, clean |-> FALSE]
    /\ UNCHANGED <<aux, dirty, tensors, next_id, owned, target, clean_graph, graph, it,
                   executed, built, repeat, nbackward, nrelease>>

\* std::accumulate(shape.begin(), shape.end(), 1, std::multiplies<size_t>())
RECURSIVE Product(_, _)
Product(shape_, i) ==
    IF i > Len(shape_) THEN 1 ELSE shape_[i] * Product(shape_, i + 1)

\* zeros<T>(shape, requires_grad)
Zeros(shape_, requires_grad_) ==
    MakeTensor(shape_, Fill(Product(shape_, 1), Q(0)), requires_grad_)

\* operator+ with the output's flag taken from the first operand alone
Add_first_flag(a, b) ==
    IF tensors[a].shape # tensors[b].shape
    THEN Throw("Tensors shapes do not match")
    ELSE
       LET out_data == [i \in 1..Len(tensors[a].data) |->
                            QAdd(tensors[a].data[i], tensors[b].data[i])]
       IN  Emit(Tensor(tensors[a].shape, out_data, tensors[a].requires_grad,
                       <<a, b>>, "AddBackward"),
                [op |-> "AddBackward", a |-> a, b |-> b, out |-> 0, k |-> 0],
                [op |-> "add", args |-> <<a, b>>, k |-> 0])

\* operator+(TensorS a, TensorS b)
Add(a, b) ==
    IF tensors[a].shape # tensors[b].shape
    THEN Throw("Tensors shapes do not match")
    ELSE
       LET out_data == [i \in 1..Len(tensors[a].data) |->
                            QAdd(tensors[a].data[i], tensors[b].data[i])]
       IN  Emit(Tensor(tensors[a].shape, out_data,
                       tensors[a].requires_grad \/ tensors[b].requires_grad,
                       <<a, b>>, "AddBackward"),
                [op |-> "AddBackward", a |-> a, b |-> b, out |-> 0, k |-> 0],
                [op |-> "add", args |-> <<a, b>>, k |-> 0])

\* operator*(TensorS a, T scalar) and operator*(T scalar, TensorS a)
MulScalar(a, scalar) ==
    LET out_data == [i \in 1..Len(tensors[a].data) |-> QMul(tensors[a].data[i], scalar)]
    IN  Emit(Tensor(tensors[a].shape, out_data, tensors[a].requires_grad,
                    <<a>>, "MulScalarBackward"),
             [op |-> "MulScalarBackward", a |-> a, b |-> 0, out |-> 0, k |-> scalar],
             [op |-> "scalar_multiply", args |-> <<a>>, k |-> scalar])

\* operator* with the sizes of the data compared in place of the shapes
Mul_size_test(a, b) ==
    IF Len(tensors[a].data) # Len(tensors[b].data)
    THEN Throw("Tensors shapes do not match")
    ELSE
       LET out_data == [i \in 1..Len(tensors[a].data) |->
                            QMul(tensors[a].data[i], tensors[b].data[i])]
       IN  Emit(Tensor(tensors[a].shape, out_data,
                       tensors[a].requires_grad \/ tensors[b].requires_grad,
                       <<a, b>>, "MulBackward"),
                [op |-> "MulBackward", a |-> a, b |-> b, out |-> 0, k |-> 0],
                [op |-> "multiply", args |-> <<a, b>>, k |-> 0])

\* operator*(TensorS a, TensorS b)
Mul(a, b) ==
    IF tensors[a].shape # tensors[b].shape
    THEN Throw("Tensors shapes do not match")
    ELSE
       LET out_data == [i \in 1..Len(tensors[a].data) |->
                            QMul(tensors[a].data[i], tensors[b].data[i])]
       IN  Emit(Tensor(tensors[a].shape, out_data,
                       tensors[a].requires_grad \/ tensors[b].requires_grad,
                       <<a, b>>, "MulBackward"),
                [op |-> "MulBackward", a |-> a, b |-> b, out |-> 0, k |-> 0],
                [op |-> "multiply", args |-> <<a, b>>, k |-> 0])

\* pow(TensorS a, int exp)
Pow(a, exp) ==
    LET out_data == [i \in 1..Len(tensors[a].data) |-> QPow(tensors[a].data[i], exp)]
    IN  Emit(Tensor(tensors[a].shape, out_data, tensors[a].requires_grad,
                    <<a>>, "PowBackward"),
             [op |-> "PowBackward", a |-> a, b |-> 0, out |-> 0, k |-> exp],
             [op |-> "pow", args |-> <<a>>, k |-> exp])

\* sum(TensorS a)
SumFn(a) == [op |-> "SumBackward", a |-> a, b |-> 0, out |-> 0, k |-> 0]

Sum(a) ==
    Emit(Tensor(<<1>>, <<SumSeq(tensors[a].data, 1)>>, tensors[a].requires_grad,
                <<a>>, "SumBackward"),
         SumFn(a), [op |-> "sum", args |-> <<a>>, k |-> 0])

\* mean(TensorS a): sum(a) * static_cast<T>(1. / a->data.size()).  The node
\* sum(a) returns is a temporary of the expression: the caller keeps only the
\* product.
Mean(a) ==
    LET s == next_id + 1
        out == next_id + 2
        scalar == Norm(1, Len(tensors[a].data))
        st == [Tensor(<<1>>, <<SumSeq(tensors[a].data, 1)>>, tensors[a].requires_grad,
                      <<a>>, "SumBackward")
                  EXCEPT !.grad_fn = [SumFn(a) EXCEPT !.out = s]]
        ot == [Tensor(st.shape, <<QMul(st.data[1], scalar)>>, st.requires_grad,
                      <<s>>, "MulScalarBackward")
                  EXCEPT !.grad_fn = [op |-> "MulScalarBackward", a |-> s, b |-> 0,
                                      out |-> out, k |-> scalar]]
    IN  /\ pc = "idle"
        /\ tensors' = tensors @@ (s :> st) @@ (out :> ot)
        /\ next_id' = out
        /\ owned' = owned \cup {out}
        /\ built' = built @@ (s :> [op |-> "sum", args |-> <<a>>, k |-> 0])
                          @@ (out :> [op |-> "mean", args |-> <<a>>, k |-> 0])
        /\ hist' = Other
        /\ UNCHANGED <<aux, dirty, pc, target, clean_graph, graph, it, executed, repeat,
                       nbackward, nrelease>>

\* relu(TensorS a)
Relu(a) ==
    LET out_data == [i \in 1..Len(tensors[a].data) |->
                        IF QPos(tensors[a].data[i]) THEN tensors[a].data[i] ELSE Q(0)]
    IN  Emit(Tensor(tensors[a].shape, out_data, tensors[a].requires_grad,
                    <<a>>, "ReLuBackward"),
             [op |-> "ReLuBackward", a |-> a, b |-> 0, out |-> 0, k |-> 0],
             [op |-> "relu", args |-> <<a>>, k |-> 0])

\* tanh(TensorS a).  std::tanh is irrational except at 0, where it is 0: the
\* model covers the inputs whose elements are all 0.
Tanh(a) ==
    /\ \A i \in 1..Len(tensors[a].data) : tensors[a].data[i] = Q(0)
    /\ LET out_data == [i \in 1..Len(tensors[a].data) |-> Q(0)]
       IN  Emit(Tensor(tensors[a].shape, out_data, tensors[a].requires_grad,
                       <<a>>, "TanhBackward"),
                [op |-> "TanhBackward", a |-> a, b |-> 0, out |-> 0, k |-> 0],
                [op |-> "tanh", args |-> <<a>>, k |-> 0])

\* broadcast_add(TensorS a, TensorS b).  The test
\*   b->shape[0] != 1 || b->shape[1] != a->shape[1]
\* reads the shapes unchecked, left to right, the second comparison only when
\* the first is false.
BroadcastAdd(a, b) ==
    IF Len(tensors[b].shape) < 1
    THEN Undefined("broadcast_add reads b->shape[0] of an empty shape")
    ELSE IF tensors[b].shape[1] # 1
    THEN Throw("broadcast_add expects b to have shape (1, K)")
    ELSE IF Len(tensors[b].shape) < 2 \/ Len(tensors[a].shape) < 2
    THEN Undefined("broadcast_add reads shape[1] of a shape of rank 1")
    ELSE IF tensors[b].shape[2] # tensors[a].shape[2]
    THEN Throw("broadcast_add expects b to have shape (1, K)")
    ELSE
       LET N == tensors[a].shape[1]
           K == tensors[a].shape[2]
           out_data == [x \in 1..(N * K) |->
                           QAdd(tensors[a].data[x], tensors[b].data[((x - 1) % K) + 1])]
       IN  Emit(Tensor(<<N, K>>, out_data,
                       tensors[a].requires_grad \/ tensors[b].requires_grad,
                       <<a, b>>, "BroadcastAddBackward"),
                [op |-> "BroadcastAddBackward", a |-> a, b |-> b, out |-> 0, k |-> <<N, K>>],
                [op |-> "broadcast_add", args |-> <<a, b>>, k |-> 0])

\* matmul without the test of the inner dimensions, the product left at the
\* zeros out_data starts with
Matmul_no_align_test(A, B) ==
    IF Len(tensors[A].shape) # 2 \/ Len(tensors[B].shape) # 2
    THEN Throw("matmul only supports 2D tensors")
    ELSE
       LET m == tensors[A].shape[1]
           n == tensors[A].shape[2]
           p == tensors[B].shape[2]
       IN  Emit(Tensor(<<m, p>>, Fill(m * p, Q(0)),
                       tensors[A].requires_grad \/ tensors[B].requires_grad,
                       <<A, B>>, "MatMulBackward"),
                [op |-> "MatMulBackward", a |-> A, b |-> B, out |-> 0, k |-> <<m, n, p>>],
                [op |-> "matmul", args |-> <<A, B>>, k |-> 0])

\* matmul(TensorS A, TensorS B)
Matmul(A, B) ==
    IF Len(tensors[A].shape) # 2 \/ Len(tensors[B].shape) # 2
    THEN Throw("matmul only supports 2D tensors")
    ELSE IF tensors[A].shape[2] # tensors[B].shape[1]
    THEN Throw("matmul shapes do not align")
    ELSE
       LET m == tensors[A].shape[1]
           n == tensors[A].shape[2]
           p == tensors[B].shape[2]
           out_data == raw_matmul(tensors[A].data, tensors[B].data, Fill(m * p, Q(0)),
                                  m, n, p, Q(0))
       IN  Emit(Tensor(<<m, p>>, out_data,
                       tensors[A].requires_grad \/ tensors[B].requires_grad,
                       <<A, B>>, "MatMulBackward"),
                [op |-> "MatMulBackward", a |-> A, b |-> B, out |-> 0, k |-> <<m, n, p>>],
                [op |-> "matmul", args |-> <<A, B>>, k |-> 0])

\* Tensor::backward(clean_graph), up to the reverse loop: build_graph, seed
BackwardBegin(t, clean) ==
    /\ pc = "idle"
    /\ LET g == build_graph(tensors, t, [visited |-> {}, graph |-> <<>>]).graph
       IN  /\ graph' = g
           /\ it' = Len(g)
    /\ tensors' = Seed(tensors, t)
    /\ target' = t
    /\ clean_graph' = clean
    /\ executed' = <<>>
    /\ repeat' = (hist = [op |-> "backward", target |-> t, clean |-> TRUE])
    /\ nbackward' = nbackward + 1
    /\ pc' = "run"
    /\ UNCHANGED <<aux, dirty, next_id, owned, built, hist, nrelease>>

\* one turn of: for (auto it = graph.rbegin(); it != graph.rend(); ++it) (*it)->grad_fn();
BackwardStep ==
    /\ pc = "run"
    /\ it >= 1
    /\ LET node == graph[it]
       IN  /\ tensors' = CallGradFn(tensors, tensors[node].grad_fn)
           /\ executed' = Append(executed, [node |-> node, fn |-> tensors[node].grad_fn.op])
    /\ it' = it - 1
    /\ pc' = IF it = 1 THEN "clean" ELSE "run"
    /\ UNCHANGED <<aux, dirty, next_id, owned, target, clean_graph, graph, built, hist, repeat,
                   nbackward, nrelease>>

\* the end of backward(): the optional cleaning, then `graph` goes out of scope
BackwardEnd ==
    /\ pc = "clean"
    /\ tensors' = Collect(CleanGraph(tensors, graph, clean_graph), owned)
    /\ graph' = <<>>
    /\ it' = 0
    /\ pc' = "idle"
    /\ hist' = [op |-> "backward", target |-> target, clean |-> clean_graph]
    /\ dirty' = dirty \cup {n \in Range(graph) : tensors[n].requires_grad}
    /\ built' = [n \in DOMAIN tensors' |-> built[n]]
    /\ UNCHANGED <<aux, next_id, owned, target, clean_graph, executed, repeat,
                   nbackward, nrelease>>

\* eye<T>(shape, requires_grad)
Eye(shape_, requires_grad_) ==
    IF Len(shape_) # 2 THEN Throw("eye() requires a 2D tensor shape")
    ELSE IF shape_[1] # shape_[2] THEN Throw("Tensor must be a square matrix")
    ELSE LET n == shape_[1]
         IN  MakeTensor(shape_,
                        [x \in 1..(n * n) |->
                            IF (x - 1) \div n = (x - 1) % n THEN Q(1) ELSE Q(0)],
                        requires_grad_)

\* std::copy of M elements of src, from offset `from`, into dst at offset `to`
CopyRow(dst, src, from, to, M) ==
    [x \in 1..Len(dst) |->
        IF x > to /\ x <= to + M THEN src[from + (x - to)] ELSE dst[x]]

\* the while loop of permute_rows with every row taken from data, temp_row
\* never used
RECURSIVE FollowCycle_no_temp(_, _, _, _, _, _, _)
FollowCycle_no_temp(st, temp_row, i, current, perm, M, fuel) ==
    IF st.visited[current + 1] \/ fuel = 0 THEN st
    ELSE LET next == perm[current + 1]
         IN  FollowCycle_no_temp(
                 [visited |-> [st.visited EXCEPT ![current + 1] = TRUE],
                  data |-> CopyRow(st.data, st.data, next * M, current * M, M)],
                 temp_row, i, next, perm, M, fuel - 1)

\* permute_rows: while (!visited[current]) { ... current = next; }
\* st = [visited, data]; fuel is the number of rows, which bounds the loop
RECURSIVE FollowCycle(_, _, _, _, _, _, _)
FollowCycle(st, temp_row, i, current, perm, M, fuel) ==
    IF st.visited[current + 1] \/ fuel = 0 THEN st
    ELSE LET next == perm[current + 1]
         IN  FollowCycle(
                 [visited |-> [st.visited EXCEPT ![current + 1] = TRUE],
                  data |-> IF next = i
                           THEN CopyRow(st.data, temp_row, 0, current * M, M)
                           ELSE CopyRow(st.data, st.data, next * M, current * M, M)],
                 temp_row, i, next, perm, M, fuel - 1)

\* permute_rows: for (size_t i = 0; i < N; ++i) { if (visited[i]) continue; ... }
RECURSIVE PermuteLoop(_, _, _, _, _)
PermuteLoop(st, i, perm, N, M) ==
    IF i >= N THEN st
    ELSE IF st.visited[i + 1] THEN PermuteLoop(st, i + 1, perm, N, M)
    ELSE LET temp_row == [x \in 1..M |-> st.data[i * M + x]]
         IN  PermuteLoop(FollowCycle(st, temp_row, i, i, perm, M, N),
                         i + 1, perm, N, M)

\* the data permute_rows(perm) leaves in a node of shape [N, M]
permute_rows(data, N, M, perm) ==
    PermuteLoop([visited |-> [x \in 1..N |-> FALSE], data |-> data], 0, perm, N, M).data

\* permute_rows moving the rows of grad along with the rows of data
PermuteRows_with_grad(n, perm) ==
    IF Len(tensors[n].shape) # 2
    THEN Throw("permute_rows_ requires a 2D tensor")
    ELSE LET N == tensors[n].shape[1]
             M == tensors[n].shape[2]
         IN  /\ pc = "idle"
             /\ tensors' = [tensors EXCEPT
                               ![n].data = permute_rows(tensors[n].data, N, M, perm),
                               ![n].grad = IF tensors[n].requires_grad
                                           THEN permute_rows(tensors[n].grad, N, M, perm)
                                           ELSE tensors[n].grad]
             /\ hist' = [op |-> "permute_rows", target |-> n, clean |-> FALSE]
             /\ UNCHANGED <<aux, dirty, next_id, owned, pc, target, clean_graph, graph, it,
                            executed, built, repeat, nbackward, nrelease>>

\* Tensor::permute_rows(perm)
PermuteRows(n, perm) ==
    IF Len(tensors[n].shape) # 2
    THEN Throw("permute_rows_ requires a 2D tensor")
    ELSE LET N == tensors[n].shape[1]
             M == tensors[n].shape[2]
         IN  /\ pc = "idle"
             /\ tensors' = [tensors EXCEPT
                               ![n].data = permute_rows(tensors[n].data, N, M, perm)]
             /\ hist' = [op |-> "permute_rows", target |-> n, clean |-> FALSE]
             /\ UNCHANGED <<aux, dirty, next_id, owned, pc, target, clean_graph, graph, it,
                            executed, built, repeat, nbackward, nrelease>>

\* the largest value of size_t.  It is 2^64 - 1 in the build; the model keeps
\* the largest integer the model checker holds, which like 2^64 - 1 exceeds
\* every index of every vector
SIZE_MAX == 2147483647

\* size_t i = n - 1
SizeMinusOne(n) == IF n > 0 THEN n - 1 ELSE SIZE_MAX

\* std::swap(v[i], v[j]), indices from 0
Swap(v, i, j) == [v EXCEPT ![i + 1] = v[j + 1], ![j + 1] = v[i + 1]]

\* random_perm: for (size_t i = n - 1; i > 0; --i) std::swap(perm[i], perm[dist(gen)])
\* draws[i] is the value dist(gen) returns at i, in [0, i]
RECURSIVE ShuffleLoop(_, _, _)
ShuffleLoop(v, i, draws) ==
    IF ~(i > 0) THEN [perm |-> v, in_range |-> TRUE]
    ELSE IF i >= Len(v) THEN [perm |-> v, in_range |-> FALSE]
    ELSE ShuffleLoop(Swap(v, i, draws[i]), i - 1, draws)

\* random_perm(n), given the values the generator returns
RandomPerm(n, draws) ==
    LET r == ShuffleLoop([x \in 1..n |-> x - 1], SizeMinusOne(n), draws)
    IN  IF ~r.in_range
        THEN Undefined("random_perm swaps perm[i] outside the vector")
        ELSE /\ pc = "idle"
             /\ last_perm' = r.perm
             /\ hist' = [op |-> "random_perm", target |-> n, clean |-> FALSE]
             /\ UNCHANGED <<tensors, next_id, owned, pc, target, clean_graph, graph,
                            it, executed, built, repeat, nbackward, nrelease, dirty,
                            optim>>

\* zero_grad that clears the data as well
zero_grad_all(t) ==
    [t EXCEPT !.grad = Fill(Len(t.grad), Q(0)),
              !.hess = Fill(Len(t.hess), Q(0)),
              !.data = Fill(Len(t.data), Q(0))]

\* Tensor::zero_grad: the node it leaves
zero_grad(t) ==
    [t EXCEPT !.grad = Fill(Len(t.grad), Q(0)),
              !.hess = Fill(Len(t.hess), Q(0))]

\* zero_grad without std::fill(hess, 0)
ZeroGrad_grad_only(n) ==
    /\ pc = "idle"
    /\ tensors' = [tensors EXCEPT ![n].grad = Fill(Len(tensors[n].grad), Q(0))]
    /\ dirty' = dirty \ {n}
    /\ hist' = [op |-> "zero_grad", target |-> n, clean |-> FALSE]
    /\ UNCHANGED <<aux, next_id, owned, pc, target, clean_graph, graph, it, executed,
                   built, repeat, nbackward, nrelease>>

\* Tensor::zero_grad
ZeroGrad(n) ==
    /\ pc = "idle"
    /\ tensors' = [tensors EXCEPT ![n] = zero_grad(tensors[n])]
    /\ dirty' = dirty \ {n}
    /\ hist' = [op |-> "zero_grad", target |-> n, clean |-> FALSE]
    /\ UNCHANGED <<aux, next_id, owned, pc, target, clean_graph, graph, it, executed,
                   built, repeat, nbackward, nrelease>>

\* a handle of the caller goes out of scope
Release(n) ==
    /\ pc = "idle"
    /\ owned' = owned \ {n}
    /\ tensors' = Collect(tensors, owned')
    /\ built' = [m \in DOMAIN tensors' |-> built[m]]
    /\ nrelease' = nrelease + 1
    /\ hist' = Other
    /\ UNCHANGED <<aux, dirty, next_id, pc, target, clean_graph, graph, it, executed, repeat,
                   nbackward>>

(***************************************************************************)
(* Optimizers (optim.hpp, adam.hpp).                                       *)
(***************************************************************************)
NoSGD == [made |-> FALSE, params |-> <<>>, lr |-> Q(0)]

\* SGD(params, learning_rate)
SGD(params, learning_rate) ==
    /\ pc = "idle"
    /\ sgd' = [made |-> TRUE, params |-> params, lr |-> learning_rate]
    /\ hist' = Other
    /\ UNCHANGED <<tensors, next_id, owned, pc, target, clean_graph, graph, it, executed,
                   built, repeat, nbackward, nrelease, dirty, last_perm, adam, noptim>>

\* for (auto &p: params) for (i < p->data.size()) p->data[i] -= lr * p->grad[i];
\* from params[k] on
RECURSIVE sgd_step(_, _, _, _)
sgd_step(T, params, lr, k) ==
    IF k > Len(params) THEN T
    ELSE LET p == params[k]
             data == [i \in 1..Len(T[p].data) |->
                         QSub(T[p].data[i], QMul(lr, T[p].grad[i]))]
         IN  sgd_step([T EXCEPT ![p].data = data], params, lr, k + 1)

\* SGD::step().  grad[i] is read for every i < data.size() without a test of
\* grad.size(), which is 0 for a node that does not require gradients.
SgdStep ==
    /\ pc = "idle"
    /\ sgd.made
    /\ IF \E k \in 1..Len(sgd.params) :
             Len(tensors[sgd.params[k]].grad) < Len(tensors[sgd.params[k]].data)
       THEN Undefined("SGD::step reads p->grad[i] outside the vector")
       ELSE /\ tensors' = sgd_step(tensors, sgd.params, sgd.lr, 1)
            /\ noptim' = noptim + 1
            /\ hist' = [op |-> "SGD::step", target |-> 0, clean |-> FALSE]
            /\ UNCHANGED <<next_id, owned, pc, target, clean_graph, graph, it, executed,
                           built, repeat, nbackward, nrelease, dirty, last_perm, sgd,
                           adam>>

\* p->zero_grad() for every node of ps
ZeroGradAll(T, ps) ==
    [n \in DOMAIN T |-> IF n \in ps THEN zero_grad(T[n]) ELSE T[n]]

\* SGD::zero_grad()
SgdZeroGrad ==
    /\ pc = "idle"
    /\ sgd.made
    /\ tensors' = ZeroGradAll(tensors, Range(sgd.params))
    /\ dirty' = dirty \ Range(sgd.params)
    /\ hist' = [op |-> "SGD::zero_grad", target |-> 0, clean |-> FALSE]
    /\ UNCHANGED <<next_id, owned, pc, target, clean_graph, graph, it, executed,
                   built, repeat, nbackward, nrelease, aux>>

NoAdam == [made |-> FALSE, params |-> <<>>, lr |-> Q(0), beta1 |-> Q(0), beta2 |-> Q(0),
           eps |-> Q(0), weight_decay |-> Q(0), step_count |-> 0]

\* AdamVariable(tensor, decay): m and v hold data.size() zeros
AdamVariable(tensor, decay) ==
    [tensor |-> tensor, decay |-> decay,
     m |-> Fill(Len(tensors[tensor].data), Q(0)),
     v |-> Fill(Len(tensors[tensor].data), Q(0))]

\* Adam(params, learning_rate, beta1, beta2, eps, weight_decay)
Adam(params, learning_rate, beta1, beta2, eps, weight_decay) ==
    /\ pc = "idle"
    /\ adam' = [made |-> TRUE, params |-> params, lr |-> learning_rate,
                beta1 |-> beta1, beta2 |-> beta2, eps |-> eps,
                weight_decay |-> weight_decay, step_count |-> 0]
    /\ hist' = Other
    /\ UNCHANGED <<tensors, next_id, owned, pc, target, clean_graph, graph, it, executed,
                   built, repeat, nbackward, nrelease, dirty, last_perm, sgd, noptim>>

\* T step_size = lr * std::sqrt((1 - std::pow(beta2, step_count)))
\*                  / (1 - std::pow(beta1, step_count));
StepSize(A, step_count) ==
    QDiv(QMul(A.lr, QSqrt(QSub(Q(1), QPow(A.beta2, step_count)))),
         QSub(Q(1), QPow(A.beta1, step_count)))

\* T grad = grad[i]; if (p.decay) grad += weight_decay * data[i];
AdamGrad(A, t, decay, i) ==
    IF decay THEN QAdd(t.grad[i], QMul(A.weight_decay, t.data[i])) ELSE t.grad[i]

\* the body of the loop over i, for one parameter p: the new m, v and data
AdamParam(A, t, p, step_size) ==
    LET m == [i \in 1..Len(p.m) |->
                 QAdd(QMul(A.beta1, p.m[i]),
                      QMul(QSub(Q(1), A.beta1), AdamGrad(A, t, p.decay, i)))]
        v == [i \in 1..Len(p.v) |->
                 QAdd(QMul(A.beta2, p.v[i]),
                      QMul(QSub(Q(1), A.beta2),
                           QMul(AdamGrad(A, t, p.decay, i), AdamGrad(A, t, p.decay, i))))]
        data == [i \in 1..Len(t.data) |->
                    IF i <= Len(p.m)
                    THEN QSub(t.data[i],
                              QDiv(QMul(step_size, m[i]), QAdd(QSqrt(v[i]), A.eps)))
                    ELSE t.data[i]]
    IN  [m |-> m, v |-> v, data |-> data]

\* for (auto &p: params) ..., from params[k] on: the nodes and the params
RECURSIVE adam_step(_, _, _, _, _)
adam_step(A, T, params, step_size, k) ==
    IF k > Len(params) THEN [tensors |-> T, params |-> params]
    ELSE LET p == params[k]
             r == AdamParam(A, T[p.tensor], p, step_size)
         IN  adam_step(A, [T EXCEPT ![p.tensor].data = r.data],
                       [params EXCEPT ![k].m = r.m, ![k].v = r.v], step_size, k + 1)

\* Adam::step().  grad[i] is read for every i < p.size() (the size of the
\* data when the AdamVariable was made) without a test of grad.size().
AdamStep ==
    /\ pc = "idle"
    /\ adam.made
    /\ IF \E k \in 1..Len(adam.params) :
             Len(tensors[adam.params[k].tensor].grad) < Len(adam.params[k].m)
       THEN Undefined("Adam::step reads grad[i] outside the vector")
       ELSE LET step_count == adam.step_count + 1
                r == adam_step(adam, tensors, adam.params, StepSize(adam, step_count), 1)
            IN  /\ tensors' = r.tensors
                /\ adam' = [adam EXCEPT !.step_count = step_count, !.params = r.params]
                /\ noptim' = noptim + 1
                /\ hist' = [op |-> "Adam::step", target |-> 0, clean |-> FALSE]
                /\ UNCHANGED <<next_id, owned, pc, target, clean_graph, graph, it,
                               executed, built, repeat, nbackward, nrelease, dirty,
                               last_perm, sgd>>

\* the nodes of the params of the Adam optimizer
AdamTensors == {adam.params[k].tensor : k \in 1..Len(adam.params)}

\* Adam::zero_grad()
AdamZeroGrad ==
    /\ pc = "idle"
    /\ adam.made
    /\ tensors' = ZeroGradAll(tensors, AdamTensors)
    /\ dirty' = dirty \ AdamTensors
    /\ hist' = [op |-> "Adam::zero_grad", target |-> 0, clean |-> FALSE]
    /\ UNCHANGED <<next_id, owned, pc, target, clean_graph, graph, it, executed,
                   built, repeat, nbackward, nrelease, aux>>

(***************************************************************************)
(* Specifications.  Each one is a driver program: the calls it may make    *)
(* and the inputs it draws.  The bounds of the model are guards of the     *)
(* driver, not of the library.                                             *)
(***************************************************************************)
Init ==
    /\ tensors = <<>>
    /\ next_id = 0
    /\ owned = {}
    /\ pc = "idle"
    /\ target = 0
    /\ clean_graph = FALSE
    /\ graph = <<>>
    /\ it = 0
    /\ executed = <<>>
    /\ built = <<>>
    /\ hist = Other
    /\ repeat = FALSE
    /\ nbackward = 0
    /\ nrelease = 0
    /\ last_perm = <<>>
    /\ dirty = {}
    /\ sgd = NoSGD
    /\ adam = NoAdam
    /\ noptim = 0

\* room for k more nodes under the bound max
Room(k, max) == next_id + k <= max

(***************************************************************************)
(* Spec: scalar leaves, the elementwise operations, backward().            *)
(***************************************************************************)
ScalarLeaves == { <<<<1>>, <<Q(1)>>>>, <<<<1>>, <<Q(2)>>>> }

Next ==
    \/ Room(1, MaxNodes) /\ \E in \in ScalarLeaves, rg \in BOOLEAN :
                                MakeTensor(in[1], in[2], rg)
    \/ Room(1, MaxNodes) /\ \E a \in owned, b \in owned : Add(a, b)
    \/ Room(1, MaxNodes) /\ \E a \in owned, s \in Scalars : MulScalar(a, s)
    \/ Room(1, MaxNodes) /\ \E a \in owned, b \in owned : Mul(a, b)
    \/ Room(1, MaxNodes) /\ \E a \in owned, e \in Exponents : Pow(a, e)
    \/ nbackward < MaxBackward /\ \E t \in owned, clean \in BOOLEAN : BackwardBegin(t, clean)
    \/ BackwardStep
    \/ BackwardEnd

Spec == Init /\ [][Next]_vars

(***************************************************************************)
(* SpecTwice: vector leaves, the elementwise operations, zero_grad, and    *)
(* backward() called more than once.                                       *)
(***************************************************************************)
VectorLeaves == { <<<<2>>, <<Q(1), Q(2)>>>>, <<<<2>>, <<Q(2), Q(-1)>>>> }

NextTwice ==
    \/ Room(1, MaxNodesTwice) /\ \E in \in VectorLeaves, rg \in BOOLEAN :
                                    MakeTensor(in[1], in[2], rg)
    \/ Room(1, MaxNodesTwice) /\ \E a \in owned, b \in owned : Add(a, b)
    \/ Room(1, MaxNodesTwice) /\ \E a \in owned, s \in Scalars : MulScalar(a, s)
    \/ Room(1, MaxNodesTwice) /\ \E a \in owned, b \in owned : Mul(a, b)
    \/ Room(1, MaxNodesTwice) /\ \E a \in owned, e \in Exponents : Pow(a, e)
    \/ nbackward < MaxBackwardTwice /\ \E t \in owned, clean \in BOOLEAN :
                                          BackwardBegin(t, clean)
    \/ BackwardStep
    \/ BackwardEnd
    \/ \E n \in owned : ZeroGrad(n)

SpecTwice == Init /\ [][NextTwice]_vars

(***************************************************************************)
(* SpecLife: handles of the caller going out of scope.                     *)
(***************************************************************************)
NextLife ==
    \/ Room(1, MaxNodesLife) /\ \E in \in ScalarLeaves, rg \in BOOLEAN :
                                   MakeTensor(in[1], in[2], rg)
    \/ Room(1, MaxNodesLife) /\ \E a \in owned, b \in owned : Add(a, b)
    \/ Room(1, MaxNodesLife) /\ \E a \in owned, s \in Scalars : MulScalar(a, s)
    \/ nbackward < MaxBackwardLife /\ \E t \in owned, clean \in BOOLEAN :
                                         BackwardBegin(t, clean)
    \/ BackwardStep
    \/ BackwardEnd
    \/ nrelease < MaxRelease /\ \E n \in owned : Release(n)

SpecLife == Init /\ [][NextLife]_vars

(***************************************************************************)
(* SpecCtor: the constructor on every combination of shape, data and flag. *)
(***************************************************************************)
Shapes == { <<1>>, <<2>>, <<2, 3>>, <<0, 2>> }
Datas == { <<>>, <<Q(1)>>, <<Q(1), Q(2)>> }

NextCtor ==
    \/ Room(1, MaxNodesCtor) /\ \E sh \in Shapes, d \in Datas, rg \in BOOLEAN :
                                   MakeTensor(sh, d, rg)
    \/ Room(1, MaxNodesCtor) /\ \E sh \in Shapes, rg \in BOOLEAN : Zeros(sh, rg)
    \/ nbackward < MaxBackwardCtor /\ \E t \in owned, clean \in BOOLEAN :
                                         BackwardBegin(t, clean)
    \/ BackwardStep
    \/ BackwardEnd
    \/ \E n \in owned : ZeroGrad(n)

SpecCtor == Init /\ [][NextCtor]_vars

(***************************************************************************)
(* SpecOps: every operation of the library on matrix leaves.               *)
(***************************************************************************)
MatrixLeaves == { <<<<1, 2>>, <<Q(1), Q(2)>>>>,
                  <<<<2, 1>>, <<Q(2), Q(-1)>>>>,
                  <<<<1, 2>>, <<Q(0), Q(0)>>>> }

NextOps ==
    \/ Room(1, MaxNodesOps) /\ \E in \in MatrixLeaves, rg \in BOOLEAN :
                                  MakeTensor(in[1], in[2], rg)
    \/ Room(1, MaxNodesOps) /\ \E a \in owned, b \in owned : Add(a, b)
    \/ Room(1, MaxNodesOps) /\ \E a \in owned, s \in Scalars : MulScalar(a, s)
    \/ Room(1, MaxNodesOps) /\ \E a \in owned, b \in owned : Mul(a, b)
    \/ Room(1, MaxNodesOps) /\ \E a \in owned, e \in Exponents : Pow(a, e)
    \/ Room(1, MaxNodesOps) /\ \E a \in owned : Sum(a)
    \/ Room(2, MaxNodesOps) /\ \E a \in owned : Mean(a)
    \/ Room(1, MaxNodesOps) /\ \E a \in owned : Relu(a)
    \/ Room(1, MaxNodesOps) /\ \E a \in owned : Tanh(a)
    \/ Room(1, MaxNodesOps) /\ \E a \in owned, b \in owned : BroadcastAdd(a, b)
    \/ Room(1, MaxNodesOps) /\ \E a \in owned, b \in owned : Matmul(a, b)
    \/ nbackward < MaxBackwardOps /\ \E t \in owned, clean \in BOOLEAN :
                                        BackwardBegin(t, clean)
    \/ BackwardStep
    \/ BackwardEnd

SpecOps == Init /\ [][NextOps]_vars

(***************************************************************************)
(* SpecMat: matmul on the matrices of test_matmul.cpp and on non-square    *)
(* ones, a scalar multiple downstream, backward() up to twice.             *)
(***************************************************************************)
MatLeaves == { <<<<2, 2>>, <<Q(1), Q(2), Q(3), Q(4)>>>>,
               <<<<2, 2>>, <<Q(5), Q(6), Q(7), Q(8)>>>>,
               <<<<1, 2>>, <<Q(1), Q(2)>>>>,
               <<<<2, 1>>, <<Q(2), Q(-1)>>>> }

NextMat ==
    \/ Room(1, MaxNodesMat) /\ \E in \in MatLeaves, rg \in BOOLEAN :
                                  MakeTensor(in[1], in[2], rg)
    \/ Room(1, MaxNodesMat) /\ \E a \in owned, b \in owned : Matmul(a, b)
    \/ Room(1, MaxNodesMat) /\ \E a \in owned, s \in Scalars : MulScalar(a, s)
    \/ nbackward < MaxBackwardMat /\ \E t \in owned, clean \in BOOLEAN :
                                        BackwardBegin(t, clean)
    \/ BackwardStep
    \/ BackwardEnd

SpecMat == Init /\ [][NextMat]_vars

(***************************************************************************)
(* SpecPerm: permute_rows on identity matrices and on matrices with        *)
(* distinct rows, with every permutation of the rows.                      *)
(***************************************************************************)
\* the vectors that hold each integer of [0, N) once
RowPermutations(N) ==
    {p \in [1..N -> 0..(N - 1)] : \A x \in 1..N, y \in 1..N : p[x] = p[y] => x = y}

EyeShapes == { <<3, 3>>, <<2, 2>>, <<2, 3>>, <<3>> }
PermLeaves == { <<<<4, 1>>, <<Q(1), Q(2), Q(3), Q(4)>>>>,
                <<<<3, 2>>, <<Q(1), Q(2), Q(3), Q(4), Q(5), Q(6)>>>>,
                <<<<1, 2>>, <<Q(1), Q(2)>>>>,
                <<<<2>>, <<Q(1), Q(2)>>>> }

\* the number of rows permute_rows reads from a node
Rows(n) == IF Len(tensors[n].shape) = 2 THEN tensors[n].shape[1] ELSE 0

NextPerm ==
    \/ Room(1, MaxNodesPerm) /\ \E in \in PermLeaves : MakeTensor(in[1], in[2], FALSE)
    \/ Room(1, MaxNodesPerm) /\ \E sh \in EyeShapes : Eye(sh, FALSE)
    \/ \E n \in owned : \E perm \in RowPermutations(Rows(n)) : PermuteRows(n, perm)

SpecPerm == Init /\ [][NextPerm]_vars

(***************************************************************************)
(* SpecBcast: broadcast_add on second operands of every rank and shape.    *)
(***************************************************************************)
BcastLeaves == { <<<<2, 2>>, <<Q(1), Q(2), Q(3), Q(4)>>>>,
                 <<<<1, 2>>, <<Q(1), Q(2)>>>>,
                 <<<<1, 3>>, <<Q(1), Q(2), Q(3)>>>>,
                 <<<<1, 2, 2>>, <<Q(1), Q(2), Q(3), Q(4)>>>>,
                 <<<<2>>, <<Q(1), Q(2)>>>>,
                 <<<<1>>, <<Q(1)>>>>,
                 <<<<>>, <<Q(1)>>>> }

NextBcast ==
    \/ Room(1, MaxNodesBcast) /\ \E in \in BcastLeaves, rg \in BOOLEAN :
                                    MakeTensor(in[1], in[2], rg)
    \/ Room(1, MaxNodesBcast) /\ \E a \in owned, b \in owned : BroadcastAdd(a, b)
    \/ nbackward < MaxBackwardBcast /\ \E t \in owned, clean \in BOOLEAN :
                                          BackwardBegin(t, clean)
    \/ BackwardStep
    \/ BackwardEnd

SpecBcast == Init /\ [][NextBcast]_vars

(***************************************************************************)
(* SpecRand: random_perm(n) for every n from 0 and every sequence of       *)
(* draws, and the rows of an identity matrix permuted by the result.       *)
(***************************************************************************)
\* the values std::uniform_int_distribution<size_t>(0, i) can return, for
\* each i of the loop
Draws(n) == {d \in [1..(n - 1) -> 0..(n - 1)] : \A i \in 1..(n - 1) : d[i] <= i}

NextRand ==
    \/ \E n \in 0..MaxPermLen : \E draws \in Draws(n) : RandomPerm(n, draws)
    \/ Room(1, MaxNodesRand) /\ \E sh \in EyeShapes : Eye(sh, FALSE)
    \/ \E n \in owned : Len(last_perm) = Rows(n) /\ PermuteRows(n, last_perm)

SpecRand == Init /\ [][NextRand]_vars

(***************************************************************************)
(* SpecShape: add, elementwise multiply and matmul on operands of equal    *)
(* and of different shapes and ranks.                                      *)
(***************************************************************************)
ShapeLeaves == { <<<<2, 3>>, <<Q(1), Q(2), Q(3), Q(4), Q(5), Q(6)>>>>,
                 <<<<3, 2>>, <<Q(1), Q(2), Q(3), Q(4), Q(5), Q(6)>>>>,
                 <<<<3>>, <<Q(1), Q(2), Q(3)>>>>,
                 <<<<1, 3, 1>>, <<Q(1), Q(2), Q(3)>>>> }

NextShape ==
    \/ Room(1, MaxNodesShape) /\ \E in \in ShapeLeaves, rg \in BOOLEAN :
                                    MakeTensor(in[1], in[2], rg)
    \/ Room(1, MaxNodesShape) /\ \E a \in owned, b \in owned : Add(a, b)
    \/ Room(1, MaxNodesShape) /\ \E a \in owned, b \in owned : Mul(a, b)
    \/ Room(1, MaxNodesShape) /\ \E a \in owned, b \in owned : Matmul(a, b)
    \/ nbackward < MaxBackwardShape /\ \E t \in owned, clean \in BOOLEAN :
                                          BackwardBegin(t, clean)
    \/ BackwardStep
    \/ BackwardEnd

SpecShape == Init /\ [][NextShape]_vars

(***************************************************************************)
(* SpecSgd: an SGD optimizer over one or two of the caller's nodes, the    *)
(* same node twice included; gradients come from backward().               *)
(***************************************************************************)
SgdLeaves == { <<<<2>>, <<Q(1), Q(2)>>>>, <<<<1>>, <<Q(3)>>>> }
LearningRates == { <<1, 2>> }

\* the vectors of one or two of the nodes of S
ParamLists(S) == {<<a>> : a \in S} \cup {<<a, b>> : a \in S, b \in S}

NextSgd ==
    \/ Room(1, MaxNodesSgd) /\ \E in \in SgdLeaves, rg \in BOOLEAN :
                                  MakeTensor(in[1], in[2], rg)
    \/ Room(1, MaxNodesSgd) /\ \E a \in owned, e \in Exponents : Pow(a, e)
    \/ nbackward < MaxBackwardSgd /\ \E t \in owned, clean \in BOOLEAN :
                                        BackwardBegin(t, clean)
    \/ BackwardStep
    \/ BackwardEnd
    \/ ~sgd.made /\ \E ps \in ParamLists(owned), lr \in LearningRates : SGD(ps, lr)
    \/ noptim < MaxStepSgd /\ SgdStep
    \/ SgdZeroGrad

SpecSgd == Init /\ [][NextSgd]_vars

(***************************************************************************)
(* SpecAdam: an Adam optimizer over one or two of the caller's nodes, each *)
(* with or without weight decay; gradients come from backward().           *)
(***************************************************************************)
AdamLeaves == { <<<<1>>, <<<<-1, 2>>>>>>, <<<<1>>, <<Q(2)>>>>, <<<<1>>, <<Q(0)>>>> }
AdamScalars == { <<5, 2>> }
Betas1 == { <<1, 2>> }
Betas2 == { <<3, 4>> }
Epsilons == { Q(1) }
WeightDecays == { Q(1) }
AdamRates == { Q(1) }

\* the vectors of one AdamVariable, or of two over different nodes, one with
\* and one without weight decay, over the nodes of S
AdamParamLists(S) ==
    {<<AdamVariable(a, d)>> : a \in S, d \in BOOLEAN}
        \cup {<<AdamVariable(x[1], TRUE), AdamVariable(x[2], FALSE)>> :
                    x \in {y \in S \X S : y[1] # y[2]}}

NextAdam ==
    \/ Room(1, MaxNodesAdam) /\ \E in \in AdamLeaves, rg \in BOOLEAN :
                                   MakeTensor(in[1], in[2], rg)
    \/ Room(1, MaxNodesAdam) /\ \E a \in owned, s \in AdamScalars : MulScalar(a, s)
    \/ nbackward < MaxBackwardAdam /\ \E t \in owned, clean \in BOOLEAN :
                                         BackwardBegin(t, clean)
    \/ BackwardStep
    \/ BackwardEnd
    \/ ~adam.made /\ \E ps \in AdamParamLists(owned), lr \in AdamRates, b1 \in Betas1,
                        b2 \in Betas2, eps \in Epsilons, wd \in WeightDecays :
                           Adam(ps, lr, b1, b2, eps, wd)
    \/ noptim < MaxStepAdam /\ AdamStep
    \/ AdamZeroGrad

SpecAdam == Init /\ [][NextAdam]_vars

(***************************************************************************)
(* SpecAct: relu on the matrix of test_activations.cpp and on a vector     *)
(* with a negative element, under a scalar multiple or a power.            *)
(***************************************************************************)
ActLeaves == { <<<<2, 2>>, <<Q(1), Q(0), Q(3), Q(4)>>>>,
               <<<<2>>, <<Q(-1), Q(2)>>>> }

NextAct ==
    \/ Room(1, MaxNodesAct) /\ \E in \in ActLeaves, rg \in BOOLEAN :
                                  MakeTensor(in[1], in[2], rg)
    \/ Room(1, MaxNodesAct) /\ \E a \in owned : Relu(a)
    \/ Room(1, MaxNodesAct) /\ \E a \in owned, s \in Scalars : MulScalar(a, s)
    \/ Room(1, MaxNodesAct) /\ \E a \in owned, e \in Exponents : Pow(a, e)
    \/ nbackward < MaxBackwardAct /\ \E t \in owned, clean \in BOOLEAN :
                                        BackwardBegin(t, clean)
    \/ BackwardStep
    \/ BackwardEnd

SpecAct == Init /\ [][NextAct]_vars

(***************************************************************************)
(* SpecPow: pow with exponents below, at and above 2, on leaves that hold  *)
(* 1 (test_grad.cpp) and 0, with add and scalar multiply.                  *)
(***************************************************************************)
PowLeaves == { <<<<1>>, <<Q(1)>>>>, <<<<1>>, <<Q(0)>>>> }
PowExponents == {-1, 0, 1, 2}

NextPow ==
    \/ Room(1, MaxNodesPow) /\ \E in \in PowLeaves, rg \in BOOLEAN :
                                  MakeTensor(in[1], in[2], rg)
    \/ Room(1, MaxNodesPow) /\ \E a \in owned, e \in PowExponents : Pow(a, e)
    \/ Room(1, MaxNodesPow) /\ \E a \in owned, b \in owned : Add(a, b)
    \/ Room(1, MaxNodesPow) /\ \E a \in owned, s \in Scalars : MulScalar(a, s)
    \/ nbackward < MaxBackwardPow /\ \E t \in owned, clean \in BOOLEAN :
                                        BackwardBegin(t, clean)
    \/ BackwardStep
    \/ BackwardEnd

SpecPow == Init /\ [][NextPow]_vars

(***************************************************************************)
(* SpecBcastGrad: broadcast_add of a matrix and a row, as the target of    *)
(* backward() and under a square.                                          *)
(***************************************************************************)
BcastGradLeaves == { <<<<2, 2>>, <<Q(1), Q(2), Q(3), Q(4)>>>>,
                     <<<<1, 2>>, <<Q(1), Q(2)>>>> }

NextBcastGrad ==
    \/ Room(1, MaxNodesBcastGrad) /\ \E in \in BcastGradLeaves, rg \in BOOLEAN :
                                        MakeTensor(in[1], in[2], rg)
    \/ Room(1, MaxNodesBcastGrad) /\ \E a \in owned, b \in owned : BroadcastAdd(a, b)
    \/ Room(1, MaxNodesBcastGrad) /\ \E a \in owned, e \in Exponents : Pow(a, e)
    \/ nbackward < MaxBackwardBcastGrad /\ \E t \in owned, clean \in BOOLEAN :
                                              BackwardBegin(t, clean)
    \/ BackwardStep
    \/ BackwardEnd

SpecBcastGrad == Init /\ [][NextBcastGrad]_vars

(***************************************************************************)
(* SpecShare: several outputs over one intermediate node, backward()       *)
(* called on one and then on another.                                      *)
(***************************************************************************)
ShareLeaves == { <<<<1>>, <<Q(2)>>>> }

NextShare ==
    \/ Room(1, MaxNodesShare) /\ \E in \in ShareLeaves, rg \in BOOLEAN :
                                    MakeTensor(in[1], in[2], rg)
    \/ Room(1, MaxNodesShare) /\ \E a \in owned, s \in Scalars : MulScalar(a, s)
    \/ Room(1, MaxNodesShare) /\ \E a \in owned, e \in Exponents : Pow(a, e)
    \/ nbackward < MaxBackwardShare /\ \E t \in owned, clean \in BOOLEAN :
                                          BackwardBegin(t, clean)
    \/ BackwardStep
    \/ BackwardEnd

SpecShare == Init /\ [][NextShare]_vars

(***************************************************************************)
(* SpecPermGrad: permute_rows on matrices that hold gradients, before and  *)
(* after backward().                                                       *)
(***************************************************************************)
PermGradLeaves == { <<<<3, 1>>, <<Q(1), Q(2), Q(3)>>>>,
                    <<<<2, 2>>, <<Q(1), Q(2), Q(3), Q(4)>>>>,
                    <<<<2>>, <<Q(1), Q(2)>>>> }

NextPermGrad ==
    \/ Room(1, MaxNodesPermGrad) /\ \E in \in PermGradLeaves, rg \in BOOLEAN :
                                       MakeTensor(in[1], in[2], rg)
    \/ Room(1, MaxNodesPermGrad) /\ \E a \in owned, e \in Exponents : Pow(a, e)
    \/ nbackward < MaxBackwardPermGrad /\ \E t \in owned, clean \in BOOLEAN :
                                             BackwardBegin(t, clean)
    \/ BackwardStep
    \/ BackwardEnd
    \/ \E n \in owned : \E perm \in RowPermutations(Rows(n)) : PermuteRows(n, perm)

SpecPermGrad == Init /\ [][NextPermGrad]_vars

(***************************************************************************)
(* Properties.                                                             *)
(***************************************************************************)
\* the nodes reachable from the nodes of S through parent links
RECURSIVE Ancestors(_, _)
Ancestors(T, S) ==
    LET S2 == S \cup UNION {Range(T[n].prev) : n \in S}
    IN  IF S2 = S THEN S ELSE Ancestors(T, S2)

\* how many times node n's grad_fn ran in the current / last backward()
Runs(n) == Cardinality({i \in 1..Len(executed) : executed[i].node = n})

\* the edges into n from the nodes of S
EdgesInto(n, S) ==
    {<<m, i>> \in S \X {1, 2} : i <= Len(tensors[m].prev) /\ tensors[m].prev[i] = n}

\* C1: in one backward(), when the reverse loop is over, the grad_fn of every
\* node reachable from the target through parent links has run exactly once
\* and no other node's has; while the loop runs, none has run twice.
C1_EachContributionOnce ==
    /\ pc = "run" => \A n \in Alive : Runs(n) <= 1
    /\ pc = "clean" =>
          \A n \in Alive : Runs(n) = IF n \in Ancestors(tensors, {target}) THEN 1 ELSE 0

\* C1 witness: the loop is over on a diamond: a node that two different
\* nodes of the traversal list as a parent
C1_Witness ==
    /\ pc = "clean"
    /\ \E n \in Alive :
          \E e1, e2 \in EdgesInto(n, Ancestors(tensors, {target})) : e1[1] # e2[1]

\* C1, second case: the loop is over on a node listed twice by one operation
C1_WitnessTwice ==
    /\ pc = "clean"
    /\ \E m \in Ancestors(tensors, {target}) :
          Len(tensors[m].prev) = 2 /\ tensors[m].prev[1] = tensors[m].prev[2]

\* the derivative of a unary operation at x: scalar multiply, pow
Derivative(how, x) ==
    IF how.op = "scalar_multiply" THEN how.k
    ELSE QMul(Q(how.k), QPow(x, how.k - 1))

\* y = u + v with u = f(x) and v = g(x), f and g among scalar multiply and pow,
\* x a leaf that requires differentiation
FanOut(y, u, v, x) ==
    /\ built[y].op = "add" /\ built[y].args = <<u, v>>
    /\ built[u].op \in {"scalar_multiply", "pow"} /\ built[u].args = <<x>>
    /\ built[v].op \in {"scalar_multiply", "pow"} /\ built[v].args = <<x>>
    /\ u # v
    /\ built[x].op = "leaf"
    /\ tensors[x].requires_grad

\* the run's first backward() has returned
FirstBackwardDone == pc = "idle" /\ nbackward = 1 /\ hist.op = "backward"

\* C2: when the first backward() of a run was called on y = f(x) + g(x), the
\* leaf x holds the sum of the two paths' contributions, f'(x) + g'(x), in
\* every element; for y = 5*x + pow(x,2) at x = 1: y = 6 and x.grad = 7.
C2_FanOutAccumulates ==
    FirstBackwardDone =>
      LET y == hist.target
      IN  \A u \in Alive, v \in Alive, x \in Alive :
           FanOut(y, u, v, x) =>
            /\ \A i \in 1..Len(tensors[x].data) :
                  tensors[x].grad[i] = QAdd(Derivative(built[u], tensors[x].data[i]),
                                            Derivative(built[v], tensors[x].data[i]))
            /\ (built[u].op = "scalar_multiply" /\ built[u].k = Q(5) /\ built[v].op = "pow"
                  /\ built[v].k = 2 /\ tensors[x].data = <<Q(1)>>) =>
                     tensors[y].data = <<Q(6)>> /\ tensors[x].grad = <<Q(7)>>

\* C2 witness: backward() has returned on y = 5*x + pow(x,2) with x = 1
C2_Witness ==
    /\ FirstBackwardDone
    /\ \E u \in Alive, v \in Alive, x \in Alive :
        /\ FanOut(hist.target, u, v, x)
        /\ built[u].op = "scalar_multiply" /\ built[u].k = Q(5)
        /\ built[v].op = "pow" /\ built[v].k = 2
        /\ tensors[x].data = <<Q(1)>>

\* C4: the step that ends a backward(clean_graph = true) leaves every node of
\* the traversal with an empty parent list and the no-op grad_fn, and with the
\* data, grad and hess it had.
C4_CleanSevers ==
    [][(pc = "clean" /\ clean_graph) =>
          \A n \in Range(graph) :
              /\ n \in DOMAIN tensors'
              /\ tensors'[n].prev = <<>>
              /\ tensors'[n].grad_fn.op = "None"
              /\ tensors'[n].data = tensors[n].data
              /\ tensors'[n].grad = tensors[n].grad
              /\ tensors'[n].hess = tensors[n].hess]_vars

\* C4 witness: a cleaning backward() has returned from a node made by an
\* operation, and a leaf holds the gradient it accumulated
C4_Witness ==
    /\ pc = "idle" /\ hist.op = "backward" /\ hist.clean
    /\ built[hist.target].op # "leaf"
    /\ tensors[hist.target].prev = <<>>
    /\ \E x \in Alive : built[x].op = "leaf" /\ tensors[x].requires_grad
                        /\ tensors[x].grad # Fill(Len(tensors[x].grad), Q(0))

\* C8 as claimed: when the first backward() of a run was called on out = a * b,
\* a and b two leaves, each operand that requires differentiation holds
\* out.grad[i] * (the other operand's data[i]) = the other operand's data[i],
\* and a zero hess, whatever the other operand's flag
C8_MulBothOperands ==
    FirstBackwardDone =>
      LET out == hist.target
      IN  \A a \in Alive, b \in Alive :
          ( /\ built[out].op = "multiply" /\ built[out].args = <<a, b>> /\ a # b
            /\ built[a].op = "leaf" /\ built[b].op = "leaf" ) =>
            /\ tensors[a].requires_grad =>
                  /\ tensors[a].grad = tensors[b].data
                  /\ tensors[a].hess = Fill(Len(tensors[a].data), Q(0))
            /\ tensors[b].requires_grad =>
                  /\ tensors[b].grad = tensors[a].data
                  /\ tensors[b].hess = Fill(Len(tensors[b].data), Q(0))

\* C3: when backward() has built the graph and no contribution has run yet,
\* a target that requires differentiation holds 1 in every element of grad and
\* 0 in every element of hess, whatever they held before, and a target that
\* does not has its empty buffers.
C3_SeedBeforeContributions ==
    (pc = "run" /\ executed = <<>>) =>
        IF tensors[target].requires_grad
        THEN /\ tensors[target].grad = Fill(Len(tensors[target].data), Q(1))
             /\ tensors[target].hess = Fill(Len(tensors[target].data), Q(0))
        ELSE /\ tensors[target].grad = <<>>
             /\ tensors[target].hess = <<>>

\* C3 witness: the run's second backward() is about to run its contributions,
\* on a leaf that requires differentiation and feeds an operation
C3_Witness ==
    /\ pc = "run" /\ executed = <<>> /\ nbackward = 2
    /\ tensors[target].requires_grad
    /\ built[target].op = "leaf"
    /\ \E m \in Alive : target \in Range(built[m].args)

\* a step of a backward() that repeats, with nothing in between, a cleaning
\* backward() on the same node
InRepeatedBackward ==
    \/ pc = "idle" /\ pc' = "run" /\ repeat'
    \/ pc # "idle" /\ repeat

C6_BuffersParallelToData ==
    \A n \in Alive :
        /\ Len(tensors[n].grad) = Len(tensors[n].hess)
        /\ Len(tensors[n].grad) =
              IF tensors[n].requires_grad THEN Len(tensors[n].data) ELSE 0

\* C7 (as stated): every constructed node has as many data elements as the
\* product of its shape, zero-sized dimensions counted as one.
C7_DataMatchesShape ==
    \A n \in Alive : Len(tensors[n].data) = TotalSize(tensors[n].shape, 1)

\* the operands of the operation that made node n are still alive
OperandsAlive(n) == Range(built[n].args) \subseteq Alive

\* node n has not been severed by a cleaning backward()
Wired(n) == tensors[n].grad_fn.op # "None"

\* C9 (as stated): the parent list of a node made by any operation of the
\* library, mean included, is exactly the operands in argument order.
C9_ParentsAreOperands ==
    \A n \in Alive :
        (built[n].op # "leaf" /\ Wired(n)) => tensors[n].prev = built[n].args

\* C9 (amended): the output of every operation requires differentiation iff
\* an operand does; the parent list of the output of every operation but mean
\* is the operands in argument order, and the parent list of mean(a) is the
\* one intermediate node sum(a), whose parent list is a; a node that does not
\* require differentiation has no ancestor that does.
C9_FlagAndParents ==
    /\ \A n \in Alive :
        built[n].op # "leaf" =>
            /\ OperandsAlive(n) =>
                  (tensors[n].requires_grad <=>
                      \E a \in Range(built[n].args) : tensors[a].requires_grad)
            /\ Wired(n) =>
                  IF built[n].op = "mean"
                  THEN /\ Len(tensors[n].prev) = 1
                       /\ LET s == tensors[n].prev[1]
                          IN  /\ s \in Alive /\ s \notin owned
                              /\ built[s].op = "sum"
                              /\ built[s].args = built[n].args
                              /\ Wired(s) => tensors[s].prev = built[n].args
                  ELSE tensors[n].prev = built[n].args
    /\ \A n \in Alive :
        ~tensors[n].requires_grad =>
            \A m \in Ancestors(tensors, {n}) : ~tensors[m].requires_grad

\* C9 witness: a mean that requires differentiation, still wired to its
\* intermediate sum
C9_Witness ==
    \E n \in Alive :
        /\ built[n].op = "mean" /\ Wired(n) /\ tensors[n].requires_grad
        /\ built[tensors[n].prev[1]].op = "sum"
        /\ tensors[tensors[n].prev[1]].prev = built[n].args

\* C10 (as stated): between calls, every node made by an operation that is
\* still alive is held by the caller or listed as a parent by another node.
C10_NoSelfKeptNode ==
    pc = "idle" =>
        \A n \in Alive :
            built[n].op # "leaf" =>
                \/ n \in owned
                \/ \E m \in Alive \ {n} : n \in Range(tensors[m].prev)

\* entry (i, j), counted from 1, of the row-major matrix M with `cols` columns
At(M, cols, i, j) == M[(i - 1) * cols + j]

\* sum over k of A[i][k] * B[k][j], for A with n columns and B with p columns
RowByColumn(A, B, n, p, i, j) ==
    SumSeq([k \in 1..n |-> QMul(At(A, n, i, k), At(B, p, k, j))], 1)

\* entry (i, k) of dC * transpose(B), for dC and B with p columns
GradOfA(dC, B, p, i, k) ==
    SumSeq([j \in 1..p |-> QMul(At(dC, p, i, j), At(B, p, k, j))], 1)

\* entry (k, j) of transpose(A) * dC, for A with n columns, m rows, dC with p columns
GradOfB(A, dC, m, n, p, k, j) ==
    SumSeq([i \in 1..m |-> QMul(At(A, n, i, k), At(dC, p, i, j))], 1)

\* C11: matmul(A[m,n], B[n,p]) makes a node of shape [m,p] whose entry (i,j)
\* is the sum over k of A[i][k]*B[k][j]; the step of backward() that runs its
\* contribution adds dC*transpose(B) to the grad A had and transpose(A)*dC to
\* the grad B had (both when A and B are one node), for the operands that
\* require differentiation, and changes no other node's grad.
C11_MatmulForwardBackward ==
    [][ /\ \A c \in DOMAIN tensors' \ DOMAIN tensors :
            built'[c].op = "matmul" =>
                LET A == tensors[built'[c].args[1]]
                    B == tensors[built'[c].args[2]]
                    m == A.shape[1]
                    n == A.shape[2]
                    p == B.shape[2]
                IN  /\ tensors'[c].shape = <<m, p>>
                    /\ tensors'[c].data =
                          [x \in 1..(m * p) |->
                              RowByColumn(A.data, B.data, n, p,
                                          ((x - 1) \div p) + 1, ((x - 1) % p) + 1)]
        /\ (pc = "run" /\ built[graph[it]].op = "matmul" /\ Wired(graph[it])) =>
                LET c == graph[it]
                    a == built[c].args[1]
                    b == built[c].args[2]
                    m == tensors[a].shape[1]
                    n == tensors[a].shape[2]
                    p == tensors[b].shape[2]
                    dC == tensors[c].grad
                IN  \A x \in Alive :
                        tensors'[x].grad =
                          [e \in 1..Len(tensors[x].grad) |->
                              QAdd(QAdd(tensors[x].grad[e],
                                  IF x = a
                                  THEN GradOfA(dC, tensors[b].data, p,
                                               ((e - 1) \div n) + 1, ((e - 1) % n) + 1)
                                  ELSE Q(0)),
                                  IF x = b
                                  THEN GradOfB(tensors[a].data, dC, m, n, p,
                                               ((e - 1) \div p) + 1, ((e - 1) % p) + 1)
                                  ELSE Q(0))]
      ]_vars

\* C11 witness: backward() has returned on C = matmul(A, B) for the A and B of
\* test_matmul.cpp, with the values the test expects
C11_Witness ==
    /\ FirstBackwardDone
    /\ built[hist.target].op = "matmul"
    /\ LET A == built[hist.target].args[1]
           B == built[hist.target].args[2]
       IN  /\ tensors[A].data = <<Q(1), Q(2), Q(3), Q(4)>>
           /\ tensors[B].data = <<Q(5), Q(6), Q(7), Q(8)>>
           /\ tensors[hist.target].data = <<Q(19), Q(22), Q(43), Q(50)>>
           /\ tensors[A].grad = <<Q(11), Q(15), Q(11), Q(15)>>
           /\ tensors[B].grad = <<Q(4), Q(4), Q(6), Q(6)>>

\* C12: whatever rows a node of shape [N, M] holds, permute_rows(perm), for any
\* permutation perm of [0, N), leaves a data of the same length whose row i is
\* the row that was at perm[i], for every i.
C12_PermuteRows ==
    \A n \in Alive :
        Len(tensors[n].shape) = 2 =>
            LET N == tensors[n].shape[1]
                M == tensors[n].shape[2]
            IN  \A perm \in RowPermutations(N) :
                    LET after == permute_rows(tensors[n].data, N, M, perm)
                    IN  /\ Len(after) = Len(tensors[n].data)
                        /\ \A i \in 0..(N - 1), j \in 1..M :
                              after[i * M + j] = tensors[n].data[perm[i + 1] * M + j]

\* C12 witness: a 3x3 identity matrix permuted by a 3-cycle has its 1 of row
\* i at column perm[i], and a 4-row matrix has been permuted by two 2-cycles
C12_Witness ==
    \E n \in Alive, k \in Alive :
        /\ tensors[n].shape = <<3, 3>>
        /\ tensors[n].data = <<Q(0), Q(1), Q(0), Q(0), Q(0), Q(1), Q(1), Q(0), Q(0)>>
        /\ tensors[k].shape = <<4, 1>>
        /\ tensors[k].data = <<Q(2), Q(1), Q(4), Q(3)>>

\* C13 (as stated): broadcast_add(a, b) on a matrix a with K columns and a b
\* whose shape is not exactly (1, K) ends in the error, makes no node and
\* reads nothing outside a shape.
C13_BroadcastRejectsOtherShapes ==
    [][ \A a \in owned, b \in owned :
          ( /\ Len(tensors[a].shape) = 2
            /\ tensors[b].shape # <<1, tensors[a].shape[2]>>
            /\ BroadcastAdd(a, b) ) =>
              /\ hist'.op = "broadcast_add expects b to have shape (1, K)"
              /\ pc' = "idle"
              /\ tensors' = tensors
      ]_vars

\* C14 (as stated): random_perm(n), for every n from 0 and every sequence of
\* draws, returns a vector of length n that holds each integer of [0, n)
\* once, and touches no index outside [0, n).
C14_RandomPermIsPermutation ==
    [][ \A n \in 0..MaxPermLen :
          \A draws \in Draws(n) :
            RandomPerm(n, draws) =>
              /\ pc' = "idle"
              /\ Len(last_perm') = n
              /\ \A v \in 0..(n - 1) : Count(last_perm', v) = 1
      ]_vars

\* the nodes of g as a constructor leaves them: the same data, zero buffers
FreshCopy(T, g) ==
    [n \in DOMAIN T |->
        IF n \in Range(g)
        THEN [T[n] EXCEPT
                 !.grad = Fill(IF T[n].requires_grad THEN Len(T[n].data) ELSE 0, Q(0)),
                 !.hess = Fill(IF T[n].requires_grad THEN Len(T[n].data) ELSE 0, Q(0))]
        ELSE T[n]]

\* the contributions of g[1..i], run from g[i] down to g[1]
RECURSIVE RunContributions(_, _, _)
RunContributions(T, g, i) ==
    IF i = 0 THEN T ELSE RunContributions(CallGradFn(T, T[g[i]].grad_fn), g, i - 1)

\* a whole backward() from t, before the cleaning
RunBackward(T, t) ==
    LET g == build_graph(T, t, [visited |-> {}, graph |-> <<>>]).graph
    IN  RunContributions(Seed(T, t), g, Len(g))

\* C15: when the reverse loop of a backward() is over, and every node of its
\* graph was either never written by a backward() or reset by zero_grad()
\* since, the grad and hess of every leaf of the graph are those the same
\* backward() leaves in freshly constructed nodes holding the same data.
C15_ZeroGradPreventsContamination ==
    (pc = "clean" /\ Range(graph) \cap dirty = {}) =>
        LET fresh == RunBackward(FreshCopy(tensors, graph), target)
        IN  \A n \in Range(graph) :
                built[n].op = "leaf" =>
                    /\ tensors[n].grad = fresh[n].grad
                    /\ tensors[n].hess = fresh[n].hess

\* C15 witness: the loop of the run's second backward() is over; a leaf of its
\* graph went through the first backward(), under another operation, with a
\* non-zero hess as result, and was reset since
C15_Witness ==
    /\ pc = "clean" /\ nbackward = 2 /\ Range(graph) \cap dirty = {}
    /\ \E x \in Range(graph), y \in Alive \ Range(graph) :
          /\ built[x].op = "leaf" /\ tensors[x].requires_grad
          /\ built[y].op = "pow" /\ x \in Range(built[y].args)
          /\ y \in dirty
          /\ tensors[x].grad # Fill(Len(tensors[x].grad), Q(0))

\* every element of v is zero
AllZero(v) == \A i \in 1..Len(v) : v[i] = Q(0)

\* C16: zero_grad() on a node leaves grad and hess of the same lengths with
\* every element zero, leaves data, shape, requires_grad, parents and the
\* backward contribution of the node and every other node as they were, and a
\* second call right after it would change nothing.
C16_ZeroGradResetsBuffersOnly ==
    [][ \A n \in owned :
          ZeroGrad(n) =>
              /\ Len(tensors'[n].grad) = Len(tensors[n].grad)
              /\ Len(tensors'[n].hess) = Len(tensors[n].hess)
              /\ AllZero(tensors'[n].grad) /\ AllZero(tensors'[n].hess)
              /\ tensors'[n].data = tensors[n].data
              /\ tensors'[n].shape = tensors[n].shape
              /\ tensors'[n].requires_grad = tensors[n].requires_grad
              /\ tensors'[n].prev = tensors[n].prev
              /\ tensors'[n].grad_fn = tensors[n].grad_fn
              /\ \A m \in Alive \ {n} : tensors'[m] = tensors[m]
              /\ zero_grad(tensors'[n]) = tensors'[n]
      ]_vars

\* C16 witness: zero_grad() has returned on a node made by an operation, still
\* wired to its parents, that a backward() had gone through
C16_Witness ==
    /\ hist.op = "zero_grad" /\ nbackward >= 1
    /\ LET n == hist.target
       IN  /\ n \in Alive /\ tensors[n].requires_grad
           /\ Wired(n) /\ tensors[n].prev # <<>>
           /\ AllZero(tensors[n].grad) /\ AllZero(tensors[n].hess)
           /\ \E x \in Range(tensors[n].prev) :
                 tensors[x].requires_grad /\ ~AllZero(tensors[x].grad)

\* the call made nothing and changed no node
NothingMade ==
    /\ tensors' = tensors
    /\ next_id' = next_id
    /\ owned' = owned
    /\ built' = built
    /\ pc' = "idle"

\* C17: matmul(A, B) ends in an exception when A or B is not of rank 2 or when
\* the columns of A differ from the rows of B; the call then makes no node and
\* leaves every node, the operands included, as it was.
C17_MatmulRejects ==
    [][ \A A \in owned, B \in owned :
          (/\ Matmul(A, B)
           /\ \/ Len(tensors[A].shape) # 2
              \/ Len(tensors[B].shape) # 2
              \/ tensors[A].shape[2] # tensors[B].shape[1])
          => /\ hist'.op \in {"matmul only supports 2D tensors",
                              "matmul shapes do not align"}
             /\ NothingMade
      ]_vars

\* C17 witness: matmul has thrown for the inner dimensions with only two
\* matrices of one shape {2,3} in hand, one of them holding gradients
C17_Witness ==
    /\ hist.op = "matmul shapes do not align"
    /\ Cardinality(Alive) = 2
    /\ \A n \in Alive : tensors[n].shape = <<2, 3>>
    /\ \E n \in Alive : tensors[n].requires_grad

\* C17 witness for the rank: matmul has thrown with a rank 1 node in hand
C17_WitnessRank ==
    /\ hist.op = "matmul only supports 2D tensors"
    /\ \E n \in Alive : Len(tensors[n].shape) = 1

\* C18: a + b and a * b end in an exception whenever a.shape differs from
\* b.shape, {2,3} against {3,2} included; the call then makes no node and
\* leaves every node, the operands included, as it was.
C18_AddMulReject ==
    [][ \A a \in owned, b \in owned :
          (/\ Add(a, b) \/ Mul(a, b)
           /\ tensors[a].shape # tensors[b].shape)
          => /\ hist'.op = "Tensors shapes do not match"
             /\ NothingMade
      ]_vars

\* C18 witness: the exception was thrown with just two nodes in hand, of
\* shapes {2,3} and {3,2}, which hold the same number of elements
C18_Witness ==
    /\ hist.op = "Tensors shapes do not match"
    /\ Cardinality(Alive) = 2
    /\ \E a \in Alive, b \in Alive :
          /\ tensors[a].shape = <<2, 3>> /\ tensors[b].shape = <<3, 2>>
          /\ Len(tensors[a].data) = Len(tensors[b].data)

\* no element of v is zero
NoneZero(v) == \A i \in 1..Len(v) : v[i] # Q(0)

\* C19: SGD.step() returns having decreased data[i] by lr * grad[i] for every
\* element of every tracked parameter, with grad and hess of the tracked
\* parameters and every untracked node as they were; when every gradient of
\* the tracked parameters is zero no data changes.
C19_SgdStepFrame ==
    [][ SgdStep =>
          /\ pc' = "idle"
          /\ \A n \in Alive :
                IF n \in Range(sgd.params)
                THEN /\ Len(tensors'[n].data) = Len(tensors[n].data)
                     /\ \A i \in 1..Len(tensors[n].data) :
                           tensors'[n].data[i] =
                               QSub(tensors[n].data[i], QMul(sgd.lr, tensors[n].grad[i]))
                     /\ tensors'[n].grad = tensors[n].grad
                     /\ tensors'[n].hess = tensors[n].hess
                ELSE tensors'[n] = tensors[n]
          /\ (\A n \in Range(sgd.params) : AllZero(tensors[n].grad)) =>
                \A n \in Alive : tensors'[n].data = tensors[n].data
      ]_vars

\* C20: in Adam.step() with weight_decay # 0 and eps > 0, a parameter without
\* weight decay whose grad, m and v are all zero keeps data, m and v, and a
\* parameter with weight decay, zero grad and non-zero data ends with non-zero
\* m and v and other data.
C20_AdamDecayFlag ==
    [][ (AdamStep /\ adam.weight_decay # Q(0) /\ QPos(adam.eps)) =>
          /\ pc' = "idle"
          /\ \A k \in 1..Len(adam.params) :
                LET p  == adam.params[k]
                    p2 == adam'.params[k]
                    t  == tensors[p.tensor]
                    t2 == tensors'[p.tensor]
                IN  /\ (~p.decay /\ AllZero(t.grad) /\ AllZero(p.m) /\ AllZero(p.v)) =>
                          (t2.data = t.data /\ p2.m = p.m /\ p2.v = p.v)
                    /\ (p.decay /\ AllZero(t.grad) /\ NoneZero(t.data)) =>
                          /\ NoneZero(p2.m) /\ NoneZero(p2.v)
                          /\ \A i \in 1..Len(t.data) : t2.data[i] # t.data[i]
      ]_vars

\* max(0, x)
Max0(x) == IF QPos(x) THEN x ELSE Q(0)

\* the node the reverse loop of backward() is at
Current == graph[it]

\* C21: relu(a) holds max(0, a[i]) in every element; its contribution adds
\* out.grad[i] to a.grad[i] and out.hess[i] to a.hess[i] where a[i] > 0, adds
\* nothing where a[i] <= 0 and touches no other node; the first backward() on
\* relu([1,0,3,4]) leaves the gradient [1,0,1,1].
C21_Relu ==
    [][ /\ \A a \in owned :
              Relu(a) => LET out == next_id'
                         IN  /\ Len(tensors'[out].data) = Len(tensors[a].data)
                             /\ \A i \in 1..Len(tensors[a].data) :
                                   tensors'[out].data[i] = Max0(tensors[a].data[i])
        /\ (BackwardStep /\ tensors[Current].grad_fn.op = "ReLuBackward") =>
              LET out == Current
                  a == tensors[out].prev[1]
              IN  /\ \A n \in Alive \ {a} : tensors'[n] = tensors[n]
                  /\ tensors'[a].data = tensors[a].data
                  /\ tensors[a].requires_grad =>
                        \A i \in 1..Len(tensors[a].data) :
                            IF QPos(tensors[a].data[i])
                            THEN /\ tensors'[a].grad[i] =
                                        QAdd(tensors[a].grad[i], tensors[out].grad[i])
                                 /\ tensors'[a].hess[i] =
                                        QAdd(tensors[a].hess[i], tensors[out].hess[i])
                            ELSE /\ tensors'[a].grad[i] = tensors[a].grad[i]
                                 /\ tensors'[a].hess[i] = tensors[a].hess[i]
                  /\ ~tensors[a].requires_grad =>
                        tensors'[a].grad = tensors[a].grad /\ tensors'[a].hess = tensors[a].hess
        /\ (pc = "clean" /\ nbackward = 1 /\ built[target].op = "relu") =>
              LET x == built[target].args[1]
              IN  (/\ built[x].op = "leaf" /\ tensors[x].requires_grad
                   /\ tensors[x].data = <<Q(1), Q(0), Q(3), Q(4)>>) =>
                      /\ tensors[target].data = <<Q(1), Q(0), Q(3), Q(4)>>
                      /\ tensors[x].grad = <<Q(1), Q(0), Q(1), Q(1)>>
      ]_vars

\* C21 witness: backward() has run on relu(x) for the x of the test, whose
\* element 1 is 0, and x holds the gradient [1,0,1,1]
C21_Witness ==
    /\ pc = "clean" /\ built[target].op = "relu"
    /\ LET x == built[target].args[1]
       IN  /\ built[x].op = "leaf" /\ tensors[x].requires_grad
           /\ tensors[x].data = <<Q(1), Q(0), Q(3), Q(4)>>
           /\ tensors[x].grad = <<Q(1), Q(0), Q(1), Q(1)>>
           /\ Len(executed) = 2

\* C21 witness for the second derivative: relu has passed a non-zero hess on
\* to an input with a negative element, which kept its zero
C21_WitnessHess ==
    /\ pc = "clean"
    /\ \E r \in Range(graph) :
          /\ built[r].op = "relu" /\ r # target
          /\ LET x == built[r].args[1]
             IN  /\ tensors[x].data = <<Q(-1), Q(2)>> /\ tensors[x].requires_grad
                 /\ tensors[x].hess[1] = Q(0) /\ tensors[x].hess[2] # Q(0)

\* the position of node n in the sequence of nodes s, 0 when absent
IndexOf(s, n) == IF \E i \in 1..Len(s) : s[i] = n
                 THEN CHOOSE i \in 1..Len(s) : s[i] = n
                 ELSE 0

\* the nodes of the traversal that list n as a parent
Consumers(n) == {m \in Range(graph) : n \in Range(tensors[m].prev)}

\* C22: while backward() runs, `graph` holds every node after all of its
\* parents, and a contribution is executed only when the contribution of every
\* node of the traversal that consumes its node has been executed.
C22_ConsumersFirst ==
    (pc \in {"run", "clean"}) =>
        /\ \A n \in Range(graph) : \A m \in Consumers(n) :
              IndexOf(graph, n) < IndexOf(graph, m)
        /\ \A i \in 1..Len(executed) : \A m \in Consumers(executed[i].node) :
              \E j \in 1..(i - 1) : executed[j].node = m

\* C22 witness: the loop is over on a target that consumes a node directly
\* and also through another node
C22_Witness ==
    /\ pc = "clean"
    /\ \E x \in Range(graph), h \in Range(graph) :
          /\ x # h /\ h # target
          /\ x \in Range(tensors[target].prev)
          /\ h \in Range(tensors[target].prev)
          /\ x \in Range(tensors[h].prev)
          /\ tensors[x].requires_grad

\* the first and second derivative of x^n at x, for x # 0 or n >= 0
PowD1(x, n) == IF n = 0 THEN Q(0) ELSE QMul(Q(n), QPow(x, n - 1))
PowD2(x, n) == IF n \in {0, 1} THEN Q(0) ELSE QMul(Q(n * (n - 1)), QPow(x, n - 2))

AllFinite(v) == \A i \in 1..Len(v) : IsFinite(v[i])

\* C23: the contribution of out = pow(a, n) adds out.grad[i] * f'(a[i]) to
\* a.grad[i] and out.hess[i] * f'(a[i])^2 + out.grad[i] * f''(a[i]) to
\* a.hess[i], with f' = n a^(n-1) and f'' = n (n-1) a^(n-2), wherever a[i]^n
\* and the buffers hold numbers; backward() on 5*x + pow(x, 2) at x = 1
\* leaves x.hess = 2.
C23_PowBackward ==
    [][ /\ (BackwardStep /\ tensors[Current].grad_fn.op = "PowBackward") =>
              LET out == Current
                  a == tensors[out].prev[1]
                  n == tensors[out].grad_fn.k
              IN  (/\ tensors[a].requires_grad
                   /\ AllFinite(tensors[out].data) /\ AllFinite(tensors[out].grad)
                   /\ AllFinite(tensors[out].hess) /\ AllFinite(tensors[a].grad)
                   /\ AllFinite(tensors[a].hess)) =>
                      \A i \in 1..Len(tensors[a].data) :
                          LET fp == PowD1(tensors[a].data[i], n)
                              fpp == PowD2(tensors[a].data[i], n)
                          IN  /\ tensors'[a].grad[i] =
                                    QAdd(tensors[a].grad[i], QMul(tensors[out].grad[i], fp))
                              /\ tensors'[a].hess[i] =
                                    QAdd(tensors[a].hess[i],
                                         QAdd(QMul(QMul(tensors[out].hess[i], fp), fp),
                                              QMul(tensors[out].grad[i], fpp)))
        /\ (pc = "clean" /\ built[target].op = "add") =>
              \A x \in Range(graph) :
                  (/\ built[x].op = "leaf" /\ tensors[x].requires_grad
                   /\ tensors[x].data = <<Q(1)>>
                   /\ built[built[target].args[1]] = [op |-> "scalar_multiply", args |-> <<x>>, k |-> Q(5)]
                   /\ built[built[target].args[2]].op = "pow"
                   /\ built[built[target].args[2]].args = <<x>>
                   /\ tensors[built[target].args[2]].grad_fn.k = 2) =>
                      tensors[x].hess = <<Q(2)>>
      ]_vars

\* v[x] when cond, else 0
When(cond, v) == IF cond THEN v ELSE Q(0)

\* C24: for out = broadcast_add(a[N,K], b[1,K]) the contribution adds
\* out.grad[i*K+j] to a.grad[i*K+j] for every element and the sum over the rows
\* i of out.grad[i*K+j] to b.grad[j], and the same for hess, and touches no
\* other node; when out is the target (upstream gradient 1) every b.grad[j]
\* grows by N and every element of a.grad by 1.
C24_BroadcastAddBackward ==
    [][ (BackwardStep /\ tensors[Current].grad_fn.op = "BroadcastAddBackward") =>
          LET out == Current
              a == tensors[out].prev[1]
              b == tensors[out].prev[2]
              N == tensors[a].shape[1]
              K == tensors[a].shape[2]
          IN  (Len(tensors[a].shape) = 2 /\ tensors[b].shape = <<1, K>>) =>
                /\ \A n \in Alive \ {a, b} : tensors'[n] = tensors[n]
                /\ \A n \in {a, b} :
                      /\ tensors'[n].data = tensors[n].data
                      /\ tensors[n].requires_grad =>
                            \A x \in 1..Len(tensors[n].grad) :
                                /\ tensors'[n].grad[x] =
                                      QAdd(tensors[n].grad[x],
                                           QAdd(When(n = a, tensors[out].grad[x]),
                                                When(n = b, ColumnSum(tensors[out].grad,
                                                                      N, K, x - 1))))
                                /\ tensors'[n].hess[x] =
                                      QAdd(tensors[n].hess[x],
                                           QAdd(When(n = a, tensors[out].hess[x]),
                                                When(n = b, ColumnSum(tensors[out].hess,
                                                                      N, K, x - 1))))
                /\ (out = target /\ a # b) =>
                      /\ tensors[a].requires_grad =>
                            \A x \in 1..(N * K) :
                                tensors'[a].grad[x] = QAdd(tensors[a].grad[x], Q(1))
                      /\ tensors[b].requires_grad =>
                            \A j \in 1..K :
                                tensors'[b].grad[j] = QAdd(tensors[b].grad[j], Q(N))
      ]_vars

\* C24 witness: the contribution of broadcast_add of a matrix of two rows and
\* a row has run with an upstream hess that is not zero, and the row holds
\* column sums that differ from the first row of the upstream gradient
C24_Witness ==
    /\ pc = "clean"
    /\ \E out \in Range(graph) :
          /\ built[out].op = "broadcast_add" /\ out # target
          /\ LET a == built[out].args[1]
                 b == built[out].args[2]
             IN  /\ tensors[a].shape = <<2, 2>> /\ tensors[b].shape = <<1, 2>>
                 /\ tensors[a].requires_grad /\ tensors[b].requires_grad
                 /\ tensors[out].hess # Fill(4, Q(0))
                 /\ tensors[b].grad = <<QAdd(tensors[out].grad[1], tensors[out].grad[3]),
                                        QAdd(tensors[out].grad[2], tensors[out].grad[4])>>
                 /\ tensors[b].grad # <<tensors[out].grad[1], tensors[out].grad[2]>>
                 /\ tensors[a].grad = tensors[out].grad

\* C24 witness for the unit upstream gradient: broadcast_add was the target
C24_WitnessUnit ==
    /\ pc = "clean" /\ built[target].op = "broadcast_add"
    /\ LET a == built[target].args[1]
           b == built[target].args[2]
       IN  /\ tensors[a].shape = <<2, 2>> /\ tensors[b].shape = <<1, 2>>
           /\ tensors[a].requires_grad /\ tensors[b].requires_grad
           /\ tensors[b].grad = <<Q(2), Q(2)>>
           /\ tensors[a].grad = Fill(4, Q(1))

\* v with every element multiplied by the integer c
Times(c, v) == [i \in 1..Len(v) |-> QMul(Q(c), v[i])]

\* y = g(h), h = f(x), x a leaf: a chain of two operations of one operand
Chain(x, h, y) ==
    /\ built[y].op \in {"scalar_multiply", "pow"} /\ built[y].args = <<h>>
    /\ built[h].op \in {"scalar_multiply", "pow"} /\ built[h].args = <<x>>
    /\ built[x].op = "leaf"

\* the loop of the second of two backward(false) calls in a row on one node,
\* the first of which found all buffers at zero, is over
SecondPassOver ==
    /\ pc = "clean" /\ nbackward = 2 /\ ~clean_graph
    /\ hist = [op |-> "backward", target |-> target, clean |-> FALSE]

\* C25: backward() seeds the node it is called on and writes to no other node
\* before the loop; without cleaning it leaves the parents and contributions
\* of all nodes as they were; after two backward(false) calls in a row on the
\* output of a chain x -> h -> y, h.grad is twice and x.grad three times what
\* one call leaves in them.
C25_RepeatedBackwardAccumulates ==
    [][ /\ \A t \in owned, clean \in BOOLEAN :
              BackwardBegin(t, clean) =>
                  /\ \A n \in Alive \ {t} : tensors'[n] = tensors[n]
                  /\ tensors'[t].prev = tensors[t].prev
                  /\ tensors'[t].grad_fn = tensors[t].grad_fn
        /\ ((BackwardStep \/ BackwardEnd) /\ ~clean_graph) =>
              \A n \in Alive :
                  /\ n \in DOMAIN tensors'
                  /\ tensors'[n].prev = tensors[n].prev
                  /\ tensors'[n].grad_fn = tensors[n].grad_fn
        /\ SecondPassOver =>
              \A x \in Alive, h \in Alive :
                  (Chain(x, h, target) /\ tensors[x].requires_grad) =>
                      LET once == RunBackward(FreshCopy(tensors, graph), target)
                      IN  /\ tensors[h].grad = Times(2, once[h].grad)
                          /\ tensors[x].grad = Times(3, once[x].grad)
                          /\ tensors[target].grad = once[target].grad
      ]_vars

\* C25 witness: the second pass is over on a chain whose single-pass
\* gradients are not zero
C25_Witness ==
    /\ SecondPassOver
    /\ \E x \in Alive, h \in Alive :
          /\ Chain(x, h, target) /\ tensors[x].requires_grad
          /\ built[h].op = "scalar_multiply"
          /\ Wired(h) /\ Wired(target) /\ tensors[h].prev = <<x>>
          /\ ~AllZero(tensors[x].grad)
          /\ tensors[x].grad # RunBackward(FreshCopy(tensors, graph), target)[x].grad

\* y1 = f(h) and y2 = g(h) over one intermediate node h = op(x), x a leaf
Shared(x, h, y1, y2) ==
    /\ y1 # y2
    /\ built[y1].op \in {"scalar_multiply", "pow"} /\ built[y1].args = <<h>>
    /\ built[y2].op \in {"scalar_multiply", "pow"} /\ built[y2].args = <<h>>
    /\ built[h].op \in {"scalar_multiply", "pow"} /\ built[h].args = <<x>>
    /\ built[x].op = "leaf"

\* a step of backward() called on t
BackwardOn(t) ==
    \/ \E clean \in BOOLEAN : BackwardBegin(t, clean)
    \/ target = t /\ (BackwardStep \/ BackwardEnd)

\* C26: after a cleaning backward() on y1, with y1 and y2 both made from
\* h = op(x): x, h and y1 have no parents and no contribution while y2, which
\* y1 does not reach, keeps its own; a backward() on y2 then changes neither
\* grad nor hess of x, and the contribution of y2 still adds to h.grad.
C26_CleaningSeversShared ==
    [][ \A x \in Alive, h \in Alive, y1 \in Alive, y2 \in Alive :
          (Shared(x, h, y1, y2)
              /\ hist = [op |-> "backward", target |-> y1, clean |-> TRUE]) =>
              /\ \A n \in {x, h, y1} : tensors[n].prev = <<>> /\ ~Wired(n)
              /\ tensors[y2].prev = <<h>> /\ Wired(y2)
              /\ BackwardOn(y2) =>
                    /\ tensors'[x].grad = tensors[x].grad
                    /\ tensors'[x].hess = tensors[x].hess
              /\ (BackwardStep /\ Current = y2 /\ tensors[h].requires_grad) =>
                    \A i \in 1..Len(tensors[h].grad) :
                        tensors'[h].grad[i] =
                            QAdd(tensors[h].grad[i],
                                 QMul(tensors[y2].grad[i],
                                      Derivative(built[y2], tensors[h].data[i])))
      ]_vars

\* C26 witness: the loop of backward() on y2 is over after a cleaning
\* backward() on y1; x holds what the first pass gave it, h holds more than the
\* first pass gave it
C26_Witness ==
    /\ pc = "clean" /\ nbackward = 2
    /\ \E x \in Alive, h \in Alive, y1 \in Alive :
          /\ Shared(x, h, y1, target)
          /\ hist = [op |-> "backward", target |-> y1, clean |-> TRUE]
          /\ tensors[x].requires_grad
          /\ built[h].op = "scalar_multiply" /\ built[y1].op = "scalar_multiply"
          /\ built[target].op = "scalar_multiply"
          /\ tensors[x].grad = <<Q(25)>>
          /\ tensors[h].grad = <<Q(10)>>

\* C27: permute_rows changes the data of its node and nothing else: grad,
\* hess, shape, requires_grad, parents and contribution of the node, and every
\* other node, are as before the call, so each row of grad keeps the values
\* accumulated for the row that was at that position before the call.
C27_PermuteRowsOnlyData ==
    [][ \A n \in owned : \A perm \in RowPermutations(Rows(n)) :
          PermuteRows(n, perm) =>
              /\ tensors'[n].grad = tensors[n].grad
              /\ tensors'[n].hess = tensors[n].hess
              /\ tensors'[n].shape = tensors[n].shape
              /\ tensors'[n].requires_grad = tensors[n].requires_grad
              /\ tensors'[n].prev = tensors[n].prev
              /\ tensors'[n].grad_fn = tensors[n].grad_fn
              /\ Len(tensors'[n].data) = Len(tensors[n].data)
              /\ \A m \in Alive \ {n} : tensors'[m] = tensors[m]
      ]_vars

\* C27 witness: permute_rows has returned on a matrix x that backward() on
\* pow(x, 2) had written to; the rows of data have moved and grad, 2 * the
\* data before the call, no longer matches the data row by row
C27_Witness ==
    /\ hist.op = "permute_rows"
    /\ LET x == hist.target
       IN  /\ x \in Alive /\ tensors[x].requires_grad /\ tensors[x].shape = <<3, 1>>
           /\ \E y \in Alive : built[y].op = "pow" /\ built[y].args = <<x>>
           /\ tensors[x].grad \in {<<Q(2), Q(4), Q(6)>>}
           /\ tensors[x].data = <<Q(2), Q(3), Q(1)>>
           /\ tensors[x].hess = <<Q(2), Q(2), Q(2)>>

====
